---- MODULE Spec2Model ----
(***************************************************************************)
(* State-machine model of ctk_interactive_canvas: the InteractiveCanvas    *)
(* (object map, selection, id counter, snapshot history) and the           *)
(* DraggableRectangle instances drawn on it.                                *)
(*                                                                         *)
(* The drawing surface of the toolkit is modelled by what the library      *)
(* reads back from it: for every DraggableRectangle the coordinates of its *)
(* rectangle item and of its resize handle and whether the two items still *)
(* exist, and the set of text items that exist.                            *)
(***************************************************************************)
EXTENDS Integers, Sequences, FiniteSets, TLC

(* ------------------------------ bounds -------------------------------- *)
\* DraggableRectangle instances ever constructed in one behaviour.
MaxRects == 2
\* Text items ever created and attached in one behaviour.
MaxTexts == 1
\* Longest history explored by the general specification Spec.
MaxHist == 4
\* Calls of save_state explored by the history-cap specification SpecCap.
MaxSaves == 61
\* Instances constructed in the history specification SpecHistory.
HistRects == 1
\* Operations of a behaviour of SpecHistory among which rectangles are moved
\* and resized and the canvas is zoomed.
HistChanges == 2
\* Instances constructed in the eviction specification SpecEvict.
EvictRects == 1
\* Largest coordinate a rectangle may reach in the pointer specification.
MaxCoord == 60
\* Operations of a behaviour that the trail records by name.
MaxTrail == 3

\* Instances constructed in the pointer specification SpecPointer.
PtrRects == 1
\* Instances constructed in the click specification SpecClick.
ClickRects == 2
\* Instances constructed in the rubber-band specification SpecBand.
BandRects == 2
\* Instances constructed in the selection specification SpecSelect.
SelectRects == 2
\* Instances constructed in the drag specification SpecDrag.
DragRects == 2
\* Largest coordinate a rectangle may reach in the drag specification.
DragCoord == 61
\* Instances constructed in the resize specification SpecResize.
ResizeRects == 2
\* Instances constructed in the layout specification SpecLayout.
LayoutRects == 3
\* Instances that exist in the rectangle-operations specification SpecOps.
OpsRects == 3
\* Instances that exist in the intersection specification SpecMeet.
MeetRects == 3
\* Instances constructed in the Delete-key specification SpecDelete.
DeleteRects == 2
\* Instances created in the zoom specification SpecZoom.
ZoomRects == 1
\* Instances constructed in the lookup specification SpecLookup.
LookupRects == 2
\* Instances constructed in the panning specification SpecPan.
PanRects == 2

(* -------------------------- program constants ------------------------- *)
\* InteractiveCanvas.__init__: self.max_history = 50
max_history == 50
\* create_draggable_rectangle / copy_draggable_rectangle: offset = [21, 21]
offset == 21
\* create_draggable_rectangle / copy_draggable_rectangle: max_repetitions = 20
max_repetitions == 20
\* DraggableRectangle.copy_: offset = [50, 50]
copy_offset == 50
\* half side of the square probed by find_overlapping around a top-left corner
probe == 2
\* DraggableRectangle.__init__: radius = 5, the radius of the resize handle
handle_radius == 5
\* DraggableRectangle.__init__: dpi = 300
default_dpi == 300

\* Python's None.
None == <<>>

\* No rubber band: start_x = start_y = None and selection_rect = None.
NoBand == [ start |-> None, rect |-> None ]

\* No call of select_callback and none of deselect_callback.
NoCalls == [ select |-> 0, deselect |-> 0, delete |-> 0 ]

\* KeyboardStateManager.__init__: no modifier key is held.
NoKeys == [ shift |-> FALSE, alt |-> FALSE, ctrl |-> FALSE ]

\* The view of a canvas that was never scrolled: canvas (0, 0) lies at window
\* (0, 0); no scan mark was set.
NoScroll == [ origin |-> << 0, 0 >>, scan |-> << 0, 0 >>, scan_origin |-> << 0, 0 >> ]

\* The text layout of a resize handle: create_aa_circle draws the handle as a
\* text item of one glyph at font size -2 * handle_radius, anchored at its
\* centre. The glyph depends on the platform ("F" or "D" for radius 5); in the
\* font Tk substitutes for the shapes font (DejaVu Sans) it is 6 or 8 wide,
\* and one line is 13 high.
HandleLayouts == { [ width |-> 6, height |-> 13 ], [ width |-> 8, height |-> 13 ] }

\* The (x1, y1, x2, y2, outline) argument tuples handed to the constructors.
Boxes ==
    { [box |-> <<0, 0, 40, 30>>, outline |-> "black"],
      [box |-> <<1, 1, 31, 51>>, outline |-> "blue"] }

\* Item ids a caller may pass to an operation that takes an id.
ItemIds == 0 .. MaxRects

VARIABLES
    rects,             \* every DraggableRectangle constructed so far, in order
    texts,             \* text items that exist on the surface
    ntexts,            \* text items created so far (the surface's id source)
    objects,           \* InteractiveCanvas.objects: item id -> instance
    selected_objects,  \* InteractiveCanvas.selected_objects: its keys, in insertion order
    next_item_id,      \* InteractiveCanvas.next_item_id
    history_states,    \* InteractiveCanvas.history_states
    history_index,     \* InteractiveCanvas.history_index (0-based, as in the source)
    dragging,          \* InteractiveCanvas.dragging
    objects_changed,   \* InteractiveCanvas._objects_changed
    grabbed,           \* the item holding the pointer while button 1 is down, or None
    rubber,            \* the rubber band: InteractiveCanvas.start_x/start_y and selection_rect
    fired,             \* calls of select_callback and deselect_callback by the last operation
    keyboard_state,    \* canvas._keyboard_state: shift_held, alt_held, ctrl_held
    panning,           \* InteractiveCanvas.panning: the space bar is held
    zoom_level,        \* InteractiveCanvas.zoom_level, a binary64 value
    user_delete_callback, \* InteractiveCanvas._user_delete_callback, None when not configured
    view,              \* the canvas widget's view: its origin and its scan mark
    handle_layout,     \* size of the text layout Tk computes for a resize handle
    raised,            \* exception the last operation ended with, "none" if it returned
    saves,             \* bookkeeping: completed save_state() calls
    evicted,           \* bookkeeping: snapshots dropped from the front of the history
    undone,            \* bookkeeping: an undo() has moved the cursor
    moved,             \* bookkeeping: a rectangle moved or changed size since the last press
    trail,             \* bookkeeping: the operations called so far, while at most MaxTrail
    laid               \* bookkeeping: the last call on record, with its arguments and the state before it

cvars == <<rects, texts, ntexts, objects, selected_objects, next_item_id,
           history_states, history_index, dragging, objects_changed, grabbed,
           rubber, fired, keyboard_state, panning, zoom_level,
          user_delete_callback, view, handle_layout, raised>>
gvars == <<saves, evicted, undone, moved, trail, laid>>
vars == <<rects, texts, ntexts, objects, selected_objects, next_item_id,
          history_states, history_index, dragging, objects_changed, grabbed,
          rubber, fired, keyboard_state, panning, zoom_level,
          user_delete_callback, view, handle_layout, raised,
          saves, evicted, undone, moved, trail, laid>>

(* ------------------------------ helpers ------------------------------- *)
EmptyMap == [k \in {} |-> 0]

MapPut(f, k, v) == [x \in (DOMAIN f) \cup {k} |-> IF x = k THEN v ELSE f[x]]

MapDel(f, k) == [x \in (DOMAIN f) \ {k} |-> f[x]]

SeqDel(s, k) == SelectSeq(s, LAMBDA e : e # k)

SeqHas(s, k) == \E i \in 1 .. Len(s) : s[i] = k

SeqSet(s) == { s[i] : i \in 1 .. Len(s) }

MinOf(S) == CHOOSE m \in S : \A n \in S : m <= n

\* The keys of a dict whose keys were inserted in increasing order.
RECURSIVE KeysInOrder(_)
KeysInOrder(S) ==
    IF S = {} THEN << >> ELSE << MinOf(S) >> \o KeysInOrder(S \ { MinOf(S) })

\* The absolute value of an integer.
Abs(x) == IF x < 0 THEN 0 - x ELSE x

(* ------------------------------ binary64 ------------------------------ *)
\* Python's float and Tk's double are IEEE 754 binary64 numbers. A value is
\* the record [neg, man, exp] that stands for (-1)^neg * man * 2^exp, where
\* man is a natural number written in base 2^15, least significant digit
\* first and without leading zero digits (the integers of the checker have 32
\* bits), and is odd, or 0 with exp 0 and neg FALSE; so every number has one
\* record, and 0.0 and -0.0, which compare equal in Python, are one value.
\* Every operation gives the value nearest to its exact result, ties going to
\* the even significand of 53 bits; the numbers met here lie far inside the
\* exponent range.
Radix == 2 ^ 15

\* Digit i of the natural number s.
Digit(s, i) == IF i >= 1 /\ i <= Len(s) THEN s[i] ELSE 0

\* s without its leading zero digits.
Trim(s) ==
    SubSeq(s, 1, CHOOSE n \in 0 .. Len(s) :
                     /\ n = 0 \/ s[n] # 0
                     /\ \A m \in n + 1 .. Len(s) : s[m] = 0)

\* The longer of two lengths.
Longer(a, b) == IF Len(a) >= Len(b) THEN Len(a) ELSE Len(b)

\* The digits of the integer n >= 0, and the integer of the digits s (below
\* 2^31).
Digits(n) == Trim(<< n % Radix, (n \div Radix) % Radix, n \div (Radix * Radix) >>)

Number(s) == Digit(s, 1) + Radix * Digit(s, 2) + Radix * Radix * Digit(s, 3)

\* The number whose digit i, before the carries, is the column c[i] < 2 * Radix
\* - 1: a carry enters column i when a column below it overflows and every
\* column between the two is full.
Carry(c, i) ==
    \E j \in 1 .. i - 1 :
        c[j] >= Radix /\ \A m \in j + 1 .. i - 1 : c[m] = Radix - 1

Carried(c) ==
    Trim([ i \in 1 .. Len(c) + 1 |->
             (Digit(c, i) + (IF Carry(c, i) THEN 1 ELSE 0)) % Radix ])

\* a + b.
Plus(a, b) == Carried([ i \in 1 .. Longer(a, b) |-> Digit(a, i) + Digit(b, i) ])

\* a - b for a >= b: digit i borrows when a lower digit of a is below that of
\* b and the digits between the two are equal.
Borrow(a, b, i) ==
    \E j \in 1 .. i - 1 :
        a[j] < Digit(b, j) /\ \A m \in j + 1 .. i - 1 : a[m] = Digit(b, m)

Minus(a, b) ==
    Trim([ i \in 1 .. Len(a) |->
             (a[i] - Digit(b, i) - (IF Borrow(a, b, i) THEN 1 ELSE 0)) % Radix ])

\* a < b.
Less(a, b) ==
    \E i \in 1 .. Longer(a, b) :
        /\ Digit(a, i) < Digit(b, i)
        /\ \A j \in i + 1 .. Longer(a, b) : Digit(a, j) = Digit(b, j)

\* a * d for one digit d: the low digit of a[i] * d and the high digit of
\* a[i - 1] * d meet in column i.
TimesDigit(a, d) ==
    Carried([ i \in 1 .. Len(a) + 1 |->
                ((Digit(a, i) * d) % Radix) + ((Digit(a, i - 1) * d) \div Radix) ])

\* a * b for a and b of at most 4 digits, as significands are: in column k
\* meet the low digits of the products a[i] * b[j] with i + j = k + 1 and the
\* high digits of those with i + j = k; what exceeds a digit is moved up twice,
\* and then the carries are left.
Low(a, b, i, j) == (Digit(a, i) * Digit(b, j)) % Radix

High(a, b, i, j) == (Digit(a, i) * Digit(b, j)) \div Radix

Column(a, b, k) ==
    Low(a, b, 1, k) + Low(a, b, 2, k - 1) + Low(a, b, 3, k - 2) + Low(a, b, 4, k - 3)
      + High(a, b, 1, k - 1) + High(a, b, 2, k - 2) + High(a, b, 3, k - 3)
      + High(a, b, 4, k - 4)

MovedUp(c) ==
    [ k \in 1 .. Len(c) + 1 |-> (Digit(c, k) % Radix) + (Digit(c, k - 1) \div Radix) ]

Times(a, b) == Carried(MovedUp(MovedUp([ k \in 1 .. 8 |-> Column(a, b, k) ])))

\* a * 2^k and floor(a / 2^k).
Doubled(a, k) ==
    Trim([ i \in 1 .. Len(a) + k \div 15 + 1 |->
             ((Digit(a, i - k \div 15) * 2 ^ (k % 15)) % Radix)
               + ((Digit(a, i - k \div 15 - 1) * 2 ^ (k % 15)) \div Radix) ])

Halved(a, k) ==
    Trim([ i \in 1 .. Len(a) |->
             (Digit(a, i + k \div 15) \div 2 ^ (k % 15))
               + (Digit(a, i + k \div 15 + 1) % 2 ^ (k % 15)) * 2 ^ (15 - (k % 15)) ])

\* floor(log2(n)) for n >= 1.
RECURSIVE Log2(_)
Log2(n) == IF n < 2 THEN 0 ELSE 1 + Log2(n \div 2)

\* The number of bits of the digit d and of the number a, bit i of a (bit 0
\* the lowest), and whether the k lowest bits of a are all 0.
Bits(d) == CHOOSE k \in 0 .. 15 : d < 2 ^ k /\ (k = 0 \/ d >= 2 ^ (k - 1))

Width(a) == IF a = << >> THEN 0 ELSE 15 * (Len(a) - 1) + Bits(a[Len(a)])

Bit(a, i) == (Digit(a, i \div 15 + 1) \div 2 ^ (i % 15)) % 2

LowZero(a, k) ==
    /\ \A i \in 1 .. k \div 15 : Digit(a, i) = 0
    /\ Digit(a, k \div 15 + 1) % 2 ^ (k % 15) = 0

\* The number of zero bits below the lowest set bit of a # 0: those of its
\* zero digits and those of the first digit that is not zero.
ZeroDigits(a) == CHOOSE n \in 0 .. Len(a) - 1 : a[n + 1] # 0 /\ \A m \in 1 .. n : a[m] = 0

ZeroBits(d) == CHOOSE k \in 0 .. 14 : d % 2 ^ k = 0 /\ d % 2 ^ (k + 1) # 0

TrailingZeros(a) == 15 * ZeroDigits(a) + ZeroBits(a[ZeroDigits(a) + 1])

\* Long division of a by b # 0, digit by digit from the highest one, for a b
\* whose highest digit is at least Radix / 2. With r the remainder so far
\* followed by the next digit of a, the quotient of the two highest digits of
\* r by the highest digit of b is the next digit of the quotient or exceeds
\* it by at most 2.
Estimate(r, b) ==
    IF (Digit(r, Len(b) + 1) * Radix + Digit(r, Len(b))) \div b[Len(b)] >= Radix
    THEN Radix - 1
    ELSE (Digit(r, Len(b) + 1) * Radix + Digit(r, Len(b))) \div b[Len(b)]

Fits(r, b, d) == d >= 0 /\ ~ Less(r, TimesDigit(b, d))

Largest(r, b, d) ==
    IF Fits(r, b, d) THEN d ELSE IF Fits(r, b, d - 1) THEN d - 1 ELSE d - 2

Reduced(q, r, b, d) == [ quot |-> << d >> \o q, rem |-> Minus(r, TimesDigit(b, d)) ]

\* The division of the higher digits of a is carried on by one digit; nothing
\* is left to divide when those left no remainder and the digit is 0.
Stepped(higher, digit, b) ==
    IF higher.rem = << >> /\ digit = 0
    THEN [ quot |-> << 0 >> \o higher.quot, rem |-> << >> ]
    ELSE Reduced(higher.quot, Trim(<< digit >> \o higher.rem), b,
                 Largest(Trim(<< digit >> \o higher.rem), b,
                         Estimate(Trim(<< digit >> \o higher.rem), b)))

\* The quotient and the remainder of the digits of a from digit i on by b:
\* the highest Len(b) - 1 digits of a are below b.
RECURSIVE LongDivision(_, _, _)
LongDivision(a, b, i) ==
    IF i > Len(a) - Len(b) + 1
    THEN [ quot |-> << >>, rem |-> Trim(SubSeq(a, IF i < 1 THEN 1 ELSE i, Len(a))) ]
    ELSE Stepped(LongDivision(a, b, i + 1), a[i], b)

\* The record of (-1)^neg * man * 2^exp for a man of at most 53 bits.
Canonical(neg, man, exp) ==
    IF man = << >>
    THEN [ neg |-> FALSE, man |-> << >>, exp |-> 0 ]
    ELSE [ neg |-> neg, man |-> Halved(man, TrailingZeros(man)),
           exp |-> exp + TrailingZeros(man) ]

\* q = floor(man / 2^k) rounded to nearest, ties to even.
RoundedUp(man, q, k) ==
    IF Bit(man, k - 1) = 1 /\ (~ LowZero(man, k - 1) \/ Bit(q, 0) = 1)
    THEN Plus(q, << 1 >>)
    ELSE q

\* The binary64 value nearest to (-1)^neg * man * 2^exp.
Nearest(neg, man, exp) ==
    IF Width(man) <= 53
    THEN Canonical(neg, man, exp)
    ELSE Canonical(neg, RoundedUp(man, Halved(man, Width(man) - 53), Width(man) - 53),
                   exp + Width(man) - 53)

\* float(n) for an integer n.
Double(n) == Canonical(n < 0, Digits(IF n < 0 THEN 0 - n ELSE n), 0)

\* -a and a * b.
float_neg(a) == IF a.man = << >> THEN a ELSE [ a EXCEPT !.neg = ~ @ ]

float_mul(a, b) ==
    IF a.man = << >> THEN a
    ELSE IF b.man = << >> THEN b
    ELSE Nearest(a.neg # b.neg, Times(a.man, b.man), a.exp + b.exp)

\* a / b for b # 0, which for a power of two b only changes the exponent.
\* Else a.man * 2^k is divided by b.man, both doubled until the highest digit
\* of b.man is at least Radix / 2: the quotient d.quot has at least 55 bits,
\* and when a remainder is left, a bit below them tells so.
Quotient(neg, d, exp) ==
    IF d.rem = << >>
    THEN Nearest(neg, Trim(d.quot), exp + 1)
    ELSE Nearest(neg, Plus(Doubled(Trim(d.quot), 1), << 1 >>), exp)

Shifted(neg, a, b, k, s, exp) ==
    Quotient(neg, LongDivision(Doubled(a, k + s), Doubled(b, s), 1), exp - k - 1)

float_truediv(a, b) ==
    IF a.man = << >> THEN a
    ELSE IF b.man = << 1 >> THEN Canonical(a.neg # b.neg, a.man, a.exp - b.exp)
    ELSE Shifted(a.neg # b.neg, a.man, b.man, 55 + Width(b.man) - Width(a.man),
                 15 - Bits(b.man[Len(b.man)]), a.exp - b.exp)

\* a + b and a - b: the significands x and y at the lower exponent e.
Aligned(a, x, b, y, e) ==
    IF a.neg = b.neg THEN Nearest(a.neg, Plus(x, y), e)
    ELSE IF Less(x, y) THEN Nearest(b.neg, Minus(y, x), e)
    ELSE Nearest(a.neg, Minus(x, y), e)

Lower(a, b, e) ==
    Aligned(a, Doubled(a.man, a.exp - e), b, Doubled(b.man, b.exp - e), e)

float_add(a, b) ==
    IF a.man = << >> THEN b
    ELSE IF b.man = << >> THEN a
    ELSE Lower(a, b, IF a.exp <= b.exp THEN a.exp ELSE b.exp)

float_sub(a, b) == float_add(a, float_neg(b))

\* a < b, a <= b and abs(a).
float_lt(a, b) == float_sub(a, b).neg

float_le(a, b) == ~ float_lt(b, a)

float_abs(a) == [ a EXCEPT !.neg = FALSE ]

\* The value is a whole number, and that number (below 2^31).
IsInteger(a) == a.exp >= 0

Int32(a) == (IF a.neg THEN 0 - 1 ELSE 1) * Number(Doubled(a.man, a.exp))

\* The float of the literal num / den, such as 1.2 or 0.1.
Literal(num, den) == float_truediv(Double(num), Double(den))

(* ------------------------- DraggableRectangle ------------------------- *)
\* Coordinates as Tk hands them out are binary64 values. Those of an item
\* whose coordinates are all whole are kept as integers; others are kept as
\* binary64 values, apart from the integers.
Exact(s) == << [ binary64 |-> s ] >>

IsExact(c) == Len(c) = 1 /\ "binary64" \in DOMAIN c[1]

\* The binary64 values of coordinates kept in either way, and the way in which
\* the binary64 values s are kept.
Floats(c) == IF IsExact(c) THEN c[1].binary64 ELSE [ i \in 1 .. Len(c) |-> Double(c[i]) ]

Kept(s) ==
    IF \A i \in 1 .. Len(s) : IsInteger(s[i])
    THEN [ i \in 1 .. Len(s) |-> Int32(s[i]) ]
    ELSE Exact(s)

\* The coordinates that Tk keeps for a rectangle item given (x1, y1, x2, y2):
\* the lower coordinate of each axis comes first.
TkBox(b) ==
    IF IsExact(b)
    THEN LET s == b[1].binary64
         IN  Exact(<< IF float_le(s[1], s[3]) THEN s[1] ELSE s[3],
                      IF float_le(s[2], s[4]) THEN s[2] ELSE s[4],
                      IF float_le(s[1], s[3]) THEN s[3] ELSE s[1],
                      IF float_le(s[2], s[4]) THEN s[4] ELSE s[2] >>)
    ELSE << IF b[1] <= b[3] THEN b[1] ELSE b[3], IF b[2] <= b[4] THEN b[2] ELSE b[4],
            IF b[1] <= b[3] THEN b[3] ELSE b[1], IF b[2] <= b[4] THEN b[4] ELSE b[2] >>

\* The point (x2, y2) of the arguments (x1, y1, x2, y2).
SecondPoint(b) ==
    IF IsExact(b)
    THEN Kept(<< b[1].binary64[3], b[1].binary64[4] >>)
    ELSE << b[3], b[4] >>

\* DraggableRectangle.__init__: the rectangle item at (x1, y1, x2, y2), the
\* resize handle at (x2, y2); the instance is not selected. The constructor
\* makes no call to the canvas's _register_rectangle.
DraggableRectangle(box, dpi, outline) ==
    [ coords           |-> TkBox(box),
      handle           |-> SecondPoint(box),
      drawn            |-> TRUE,
      is_selected      |-> FALSE,
      dpi              |-> dpi,
      original_outline |-> outline,
      attached         |-> << >>,
      start            |-> None,
      resize_start     |-> None ]

\* canvas.coords(rect.rect): InteractiveCanvas.coords gives [0, 0, 0, 0] for an
\* item that no longer exists.
Coords(rs, r) == IF rs[r].drawn THEN rs[r].coords ELSE << 0, 0, 0, 0 >>

\* DraggableRectangle.__eq__: all(abs(a - b) < 1e-9 ...) over the coordinates
\* of the two, which for whole coordinates is their equality.
Close(a, b) == float_lt(float_abs(float_sub(a, b)), Literal(1, 1000000000))

RectEq(rs, a, b) ==
    IF IsExact(Coords(rs, a)) \/ IsExact(Coords(rs, b))
    THEN \A i \in 1 .. 4 : Close(Floats(Coords(rs, a))[i], Floats(Coords(rs, b))[i])
    ELSE Coords(rs, a) = Coords(rs, b)

\* DraggableRectangle.delete: both items leave the surface.
RectDelete(rec) ==
    [ rec EXCEPT !.drawn = FALSE,
                 !.coords = << 0, 0, 0, 0 >>,
                 !.handle = << 0, 0 >> ]

\* canvas.move on the rectangle item and on the handle; items that were
\* deleted do not move.
MoveBy(rec, dx, dy) ==
    IF ~ rec.drawn
    THEN rec
    ELSE [ rec EXCEPT !.coords = << @[1] + dx, @[2] + dy, @[3] + dx, @[4] + dy >>,
                      !.handle = << @[1] + dx, @[2] + dy >> ]

\* DraggableRectangle.set_topleft_pos(new_pos): a move by new_pos - (x0, y0).
set_topleft_pos(rec, pos) ==
    MoveBy(rec, pos[1] - rec.coords[1], pos[2] - rec.coords[2])

(* --------------------------- the surface ------------------------------ *)
\* Canvas.find_overlapping on the rectangle item of an instance: an unfilled
\* rectangle is hit where the probed area meets its outline, i.e. the area
\* meets the box and does not lie strictly inside it.
Overlaps(area, c) ==
    /\ area[1] <= c[3] /\ c[1] <= area[3]
    /\ area[2] <= c[4] /\ c[2] <= area[4]
    /\ ~ ( /\ c[1] < area[1] /\ area[3] < c[3]
           /\ c[2] < area[2] /\ area[4] < c[4] )

\* "for obj in self.objects.values(): if obj.rect in overlapping_items" for the
\* square probed around the top-left corner of coordinates c.
TrackedOverlap(rs, objs, c) ==
    \E id \in DOMAIN objs :
        /\ rs[objs[id]].drawn
        /\ Overlaps(<< c[1] - probe, c[2] - probe, c[1] + probe, c[2] + probe >>,
                    rs[objs[id]].coords)

(* ------------------------------ history ------------------------------- *)
\* _save_initial_state: {"objects": {}, "next_item_id": 0, "selected": []}
InitialState == [ objects |-> EmptyMap, next_item_id |-> 0, selected |-> << >> ]

\* save_state, lines 695-704: reading obj.fill_color of a tracked rectangle
\* raises AttributeError (DraggableRectangle sets no fill_color, line_width or
\* handle_radius), before the history is touched.
SaveRaises(objs) == DOMAIN objs # {}

\* save_state, lines 689-700: the snapshot of the canvas.
Snapshot(rs, objs, sel, nid) ==
    [ objects      |-> [ id \in DOMAIN objs |->
                           [ coords  |-> Coords(rs, objs[id]),
                             dpi     |-> rs[objs[id]].dpi,
                             outline |-> rs[objs[id]].original_outline ] ],
      next_item_id |-> nid,
      selected     |-> sel ]

\* Truncate as a save_state that forgot lines 706-708 would compute it.
Truncate_KeepsFuture(hs, hi) == hs

\* save_state, lines 706-708: drop the snapshots beyond the cursor.
Truncate(hs, hi) == IF hi < Len(hs) - 1 THEN SubSeq(hs, 1, hi + 1) ELSE hs

\* PushHistory without the cap of lines 712-714: nothing is ever evicted.
PushHistory_NoCap(hs, hi, state) ==
    [ states |-> Append(Truncate(hs, hi), state), index |-> hi + 1, evicts |-> 0 ]

\* PushHistory that advances the cursor also when it evicts.
PushHistory_AlwaysAdvances(hs, hi, state) ==
    LET app == Append(Truncate(hs, hi), state)
    IN  IF Len(app) > max_history
        THEN [ states |-> Tail(app), index |-> hi + 1, evicts |-> 1 ]
        ELSE [ states |-> app, index |-> hi + 1, evicts |-> 0 ]

\* save_state, lines 710-716: append, then evict the oldest snapshot when the
\* cap is exceeded (cursor kept), else advance the cursor.
PushHistory(hs, hi, state) ==
    LET app == Append(Truncate(hs, hi), state)
    IN  IF Len(app) > max_history
        THEN [ states |-> Tail(app), index |-> hi, evicts |-> 1 ]
        ELSE [ states |-> app, index |-> hi + 1, evicts |-> 0 ]

\* save_state that writes the snapshot over the one at the cursor.
SaveOutcome_RewritesCursor(rs, objs, sel, nid) ==
    IF SaveRaises(objs)
    THEN [ raised |-> "AttributeError", states |-> history_states,
           index |-> history_index, evicts |-> 0 ]
    ELSE [ raised |-> "none",
           states |-> [ history_states EXCEPT ![history_index + 1] =
                                                 Snapshot(rs, objs, sel, nid) ],
           index |-> history_index, evicts |-> 0 ]

\* save_state as called on a canvas holding (rs, objs, sel, nid).
SaveOutcome(rs, objs, sel, nid) ==
    IF SaveRaises(objs)
    THEN [ raised |-> "AttributeError", states |-> history_states,
           index |-> history_index, evicts |-> 0 ]
    ELSE LET p == PushHistory(history_states, history_index,
                              Snapshot(rs, objs, sel, nid))
         IN  [ raised |-> "none", states |-> p.states, index |-> p.index,
               evicts |-> p.evicts ]

\* No call is on record.
NoLayout == [ op |-> "none" ]

\* InteractiveCanvas.__init__ with the given delete_callback and every other
\* argument at its default.
Constructed(delete_callback) ==
    /\ rects = << >>
    /\ texts = {}
    /\ ntexts = 0
    /\ objects = EmptyMap
    /\ selected_objects = << >>
    /\ next_item_id = 0
    /\ history_states = << InitialState >>
    /\ history_index = 0
    /\ dragging = FALSE
    /\ objects_changed = FALSE
    /\ grabbed = None
    /\ rubber = NoBand
    /\ fired = NoCalls
    /\ keyboard_state = NoKeys
    /\ panning = FALSE
    /\ zoom_level = Double(1)
    /\ user_delete_callback = delete_callback
    /\ view = NoScroll
    /\ handle_layout \in HandleLayouts
    /\ raised = "none"
    /\ saves = 0
    /\ evicted = 0
    /\ undone = FALSE
    /\ moved = FALSE
    /\ trail = << >>
    /\ laid = NoLayout

\* The canvas as constructed with no delete_callback.
Init == Constructed(None)

(* ---------------------- operations on the canvas ---------------------- *)
\* What deletion and restoration rewrite together: the instances, the text
\* items, the object map and the selection.
World ==
    [ rects |-> rects, texts |-> texts, objects |-> objects,
      selected |-> selected_objects, fired |-> NoCalls ]

SetWorld(w) ==
    /\ rects' = w.rects
    /\ texts' = w.texts
    /\ objects' = w.objects
    /\ selected_objects' = w.selected
    /\ fired' = w.fired

\* _register_rectangle: a rectangle that is no value of objects (by identity or
\* by __eq__) is stored under next_item_id.
IsRegistered(rs, objs, r) ==
    \E id \in DOMAIN objs : objs[id] = r \/ RectEq(rs, objs[id], r)

\* delete_draggable_rectangle that leaves the id in selected_objects.
DeleteItemIn_KeepsSelected(w, id, restoring) ==
    IF id \notin DOMAIN w.objects
    THEN w
    ELSE LET r == w.objects[id]
         IN  [ rects    |-> [ w.rects EXCEPT
                                ![r] = [ RectDelete(@) EXCEPT !.attached = << >> ] ],
               texts    |-> w.texts \ SeqSet(w.rects[r].attached),
               objects  |-> MapDel(w.objects, id),
               selected |-> w.selected,
               fired    |-> IF restoring THEN w.fired
                            ELSE [ w.fired EXCEPT !.deselect = @ + 1 ] ]

\* delete_draggable_rectangle on a world: an untracked id changes nothing;
\* else the attached items and the two items of the rectangle leave the
\* surface, the id leaves objects and selected_objects, and deselect_callback
\* is called unless a restore is running.
DeleteItemIn(w, id, restoring) ==
    IF id \notin DOMAIN w.objects
    THEN w
    ELSE LET r == w.objects[id]
         IN  [ rects    |-> [ w.rects EXCEPT
                                ![r] = [ RectDelete(@) EXCEPT !.attached = << >> ] ],
               texts    |-> w.texts \ SeqSet(w.rects[r].attached),
               objects  |-> MapDel(w.objects, id),
               selected |-> SeqDel(w.selected, id),
               fired    |-> IF restoring THEN w.fired
                            ELSE [ w.fired EXCEPT !.deselect = @ + 1 ] ]

\* delete_draggable_rectangle called outside a restore.
DeleteIn(w, id) == DeleteItemIn(w, id, FALSE)

RECURSIVE DeleteAll(_, _)
DeleteAll(w, ids) ==
    IF ids = << >> THEN w ELSE DeleteAll(DeleteIn(w, Head(ids)), Tail(ids))

\* _restore_state step 1: delete_draggable_rectangle for every tracked id
\* while _restoring_state is set.
RECURSIVE DeleteAllRestoring(_, _)
DeleteAllRestoring(w, ids) ==
    IF ids = << >>
    THEN w
    ELSE DeleteAllRestoring(DeleteItemIn(w, Head(ids), TRUE), Tail(ids))

\* select_item on a world: flag set, id stored in selected_objects.
SelectIn(w, id) ==
    [ w EXCEPT !.rects[w.objects[id]].is_selected = TRUE,
               !.selected = IF SeqHas(@, id) THEN @ ELSE Append(@, id),
               !.fired.select = @ + 1 ]

\* deselect_item on a world: flag cleared, id removed from selected_objects.
DeselectIn(w, id) ==
    [ w EXCEPT !.rects[w.objects[id]].is_selected = FALSE,
               !.selected = SeqDel(@, id),
               !.fired.deselect = @ + 1 ]

\* deselect_all on a world: deselect_item for every selected id.
RECURSIVE DeselectAllIn(_, _)
DeselectAllIn(w, ids) ==
    IF ids = << >> THEN w ELSE DeselectAllIn(DeselectIn(w, Head(ids)), Tail(ids))

\* select_all on a world: select_item for every id of objects, in its order.
RECURSIVE SelectAllIn(_, _)
SelectAllIn(w, ids) ==
    IF ids = << >> THEN w ELSE SelectAllIn(SelectIn(w, Head(ids)), Tail(ids))

\* _restore_state step 3: one new DraggableRectangle per stored object, put
\* into objects under its stored id.
RECURSIVE Recreate(_, _, _)
Recreate(w, stored, ids) ==
    IF ids = << >>
    THEN w
    ELSE LET d  == stored[Head(ids)]
             rs == Append(w.rects, DraggableRectangle(d.coords, d.dpi, d.outline))
         IN  Recreate([ w EXCEPT !.rects = rs,
                                 !.objects = MapPut(@, Head(ids), Len(rs)) ],
                      stored, Tail(ids))

\* _restore_state step 4: select every stored id that is tracked again.
RECURSIVE SelectSaved(_, _)
SelectSaved(w, ids) ==
    IF ids = << >>
    THEN w
    ELSE SelectSaved(IF Head(ids) \in DOMAIN w.objects
                     THEN SelectIn(w, Head(ids)) ELSE w,
                     Tail(ids))

\* RestoreState without steps 1 and 2: nothing deleted, the maps not cleared.
RestoreState_KeepsObjects(w, state) ==
    SelectSaved(Recreate(w, state.objects, KeysInOrder(DOMAIN state.objects)),
                state.selected)

\* _restore_state: delete every tracked rectangle, clear both maps, recreate
\* the stored rectangles, restore the selection. (next_item_id is set by the
\* caller of this operator from the same snapshot.)
RestoreState(w, state) ==
    LET w1 == DeleteAllRestoring(w, KeysInOrder(DOMAIN w.objects))
        w2 == [ w1 EXCEPT !.objects = EmptyMap, !.selected = << >> ]
        w3 == Recreate(w2, state.objects, KeysInOrder(DOMAIN state.objects))
    IN  SelectSaved(w3, state.selected)

\* create_draggable_rectangle, lines 277-297: while the probe around the new
\* rectangle's top-left corner hits a tracked rectangle, move it to
\* (x1, y1) + offset * (repetitions + 1).
RECURSIVE PlaceCreated(_, _, _, _)
PlaceCreated(rec, x1, y1, rep) ==
    IF rep < max_repetitions /\ TrackedOverlap(rects, objects, rec.coords)
    THEN PlaceCreated(set_topleft_pos(rec, << x1 + offset * (rep + 1),
                                              y1 + offset * (rep + 1) >>),
                      x1, y1, rep + 1)
    ELSE rec

\* copy_draggable_rectangle, lines 329-349: as above, but each new position is
\* taken from the copy's current top-left corner.
RECURSIVE PlaceCopied(_, _)
PlaceCopied(rec, rep) ==
    IF rep < max_repetitions /\ TrackedOverlap(rects, objects, rec.coords)
    THEN PlaceCopied(set_topleft_pos(rec, << rec.coords[1] + offset * (rep + 1),
                                             rec.coords[2] + offset * (rep + 1) >>),
                     rep + 1)
    ELSE rec

\* DraggableRectangle.copy_: a new instance at the source's coordinates plus
\* [50, 50], same dpi, default outline.
copy_(r) ==
    LET c == Coords(rects, r)
    IN  DraggableRectangle(<< c[1] + copy_offset, c[2] + copy_offset,
                              c[3] + copy_offset, c[4] + copy_offset >>,
                           rects[r].dpi, "black")

(* ------------------------------ actions ------------------------------- *)
\* DraggableRectangle(canvas, x1, y1, x2, y2, outline=...) called directly.
new_rectangle(b) ==
    /\ rects' = Append(rects, DraggableRectangle(b.box, default_dpi, b.outline))
    /\ raised' = "none"
    /\ UNCHANGED << texts, ntexts, objects, selected_objects, next_item_id,
                    history_states, history_index, dragging, objects_changed, grabbed, rubber, keyboard_state, panning, zoom_level,
                    user_delete_callback,
                    view, handle_layout >>
    /\ fired' = NoCalls

\* InteractiveCanvas._register_rectangle(rect) for a live rectangle.
register_rectangle(r) ==
    /\ rects[r].drawn
    /\ IF IsRegistered(rects, objects, r)
       THEN UNCHANGED << objects, next_item_id >>
       ELSE /\ objects' = MapPut(objects, next_item_id, r)
            /\ next_item_id' = next_item_id + 1
    /\ raised' = "none"
    /\ UNCHANGED << rects, texts, ntexts, selected_objects, history_states,
                    history_index, dragging, objects_changed, grabbed, rubber, keyboard_state, panning, zoom_level,
                    user_delete_callback,
                    view, handle_layout >>
    /\ fired' = NoCalls

\* InteractiveCanvas.create_draggable_rectangle(x1, y1, x2, y2, outline=...).
create_draggable_rectangle(b) ==
    LET rec == PlaceCreated(DraggableRectangle(b.box, default_dpi, b.outline),
                            b.box[1], b.box[2], 0)
        rs  == Append(rects, rec)
        out == SaveOutcome(rs, objects, selected_objects, next_item_id)
    IN  /\ rects' = rs
        /\ history_states' = out.states
        /\ history_index' = out.index
        /\ raised' = out.raised
        /\ UNCHANGED << texts, ntexts, objects, selected_objects, next_item_id,
                        dragging, objects_changed, grabbed, rubber, keyboard_state, panning, zoom_level,
                    user_delete_callback,
                    view, handle_layout >>
        /\ fired' = NoCalls

\* InteractiveCanvas.copy_draggable_rectangle(rect) for a live rectangle.
copy_draggable_rectangle(r) ==
    LET rec == PlaceCopied(copy_(r), 0)
        rs  == Append(rects, rec)
        out == SaveOutcome(rs, objects, selected_objects, next_item_id)
    IN  /\ rects[r].drawn
        /\ rects' = rs
        /\ history_states' = out.states
        /\ history_index' = out.index
        /\ raised' = out.raised
        /\ UNCHANGED << texts, ntexts, objects, selected_objects, next_item_id,
                        dragging, objects_changed, grabbed, rubber, keyboard_state, panning, zoom_level,
                    user_delete_callback,
                    view, handle_layout >>
        /\ fired' = NoCalls

\* InteractiveCanvas.delete_draggable_rectangle(item_id): no snapshot is saved.
delete_draggable_rectangle(id) ==
    /\ SetWorld(DeleteIn(World, id))
    /\ raised' = "none"
    /\ UNCHANGED << ntexts, next_item_id, history_states, history_index,
                    dragging, objects_changed, grabbed, rubber, keyboard_state, panning, zoom_level,
                    user_delete_callback,
                    view, handle_layout >>

\* _on_delete_key with no user callback, i.e. on_delete: nothing when nothing
\* is selected; else every selected rectangle is deleted and save_state runs.
on_delete ==
    IF selected_objects = << >>
    THEN /\ raised' = "none"
         /\ UNCHANGED << rects, texts, ntexts, objects, selected_objects,
                         next_item_id, history_states, history_index, dragging,
                         objects_changed, grabbed, rubber, keyboard_state, panning, zoom_level,
                    user_delete_callback,
                    view, handle_layout >>
         /\ fired' = NoCalls
    ELSE LET w   == DeleteAll(World, selected_objects)
             out == SaveOutcome(w.rects, w.objects, w.selected, next_item_id)
         IN  /\ SetWorld(w)
             /\ history_states' = out.states
             /\ history_index' = out.index
             /\ raised' = out.raised
             /\ UNCHANGED << ntexts, next_item_id, dragging, objects_changed, grabbed, rubber, keyboard_state, panning, zoom_level,
                    user_delete_callback,
                    view, handle_layout >>

\* InteractiveCanvas.get_draggable_rectangle(item_id): objects.get(item_id).
get_draggable_rectangle(objs, item_id) ==
    IF item_id \in DOMAIN objs THEN objs[item_id] ELSE None

\* InteractiveCanvas.get_item_id(rect), i.e. _get_key_by_value(objects, rect):
\* the first key, in insertion order, whose value == rect by
\* DraggableRectangle.__eq__; None when there is none.
get_item_id(rs, objs, r) ==
    LET hits == { id \in DOMAIN objs : RectEq(rs, objs[id], r) }
    IN  IF hits = {} THEN None ELSE MinOf(hits)

\* InteractiveCanvas._on_delete_key, the binding of the Delete key: the user's
\* delete_callback when one was configured, else on_delete.
on_delete_key ==
    IF user_delete_callback # None
    THEN /\ fired' = [ NoCalls EXCEPT !.delete = 1 ]
         /\ raised' = "none"
         /\ UNCHANGED << rects, texts, ntexts, objects, selected_objects,
                         next_item_id, history_states, history_index, dragging,
                         objects_changed, grabbed, rubber, keyboard_state,
                         panning, zoom_level, user_delete_callback,
                    view, handle_layout >>
    ELSE on_delete

\* DraggableRectangle.delete() called on the instance r: the rectangle item
\* and the handle leave the surface; the canvas's objects and
\* selected_objects, the flag and the attached items stay as they are.
delete(r) ==
    /\ rects' = [ rects EXCEPT ![r] = RectDelete(@) ]
    /\ raised' = "none"
    /\ fired' = NoCalls
    /\ UNCHANGED << texts, ntexts, objects, selected_objects, next_item_id,
                    history_states, history_index, dragging, objects_changed,
                    grabbed, rubber, keyboard_state, panning, zoom_level,
                    user_delete_callback,
                    view, handle_layout >>

\* DraggableRectangle.set_is_selected(is_selected) called on the instance r:
\* only the flag is written.
set_is_selected(r, is_selected) ==
    /\ rects' = [ rects EXCEPT ![r].is_selected = is_selected ]
    /\ raised' = "none"
    /\ fired' = NoCalls
    /\ UNCHANGED << texts, ntexts, objects, selected_objects, next_item_id,
                    history_states, history_index, dragging, objects_changed,
                    grabbed, rubber, keyboard_state, panning, zoom_level,
                    user_delete_callback,
                    view, handle_layout >>

\* InteractiveCanvas.select_item(item_id): KeyError for an untracked id.
select_item(id) ==
    IF id \in DOMAIN objects
    THEN /\ SetWorld(SelectIn(World, id))
         /\ raised' = "none"
         /\ UNCHANGED << ntexts, next_item_id, history_states, history_index,
                         dragging, objects_changed, grabbed, rubber, keyboard_state, panning, zoom_level,
                    user_delete_callback,
                    view, handle_layout >>
    ELSE /\ raised' = "KeyError"
         /\ UNCHANGED << rects, texts, ntexts, objects, selected_objects,
                         next_item_id, history_states, history_index, dragging,
                         objects_changed, grabbed, rubber, keyboard_state, panning, zoom_level,
                    user_delete_callback,
                    view, handle_layout >>
         /\ fired' = NoCalls

\* InteractiveCanvas.deselect_item(item_id): KeyError for an untracked id.
deselect_item(id) ==
    IF id \in DOMAIN objects
    THEN /\ SetWorld(DeselectIn(World, id))
         /\ raised' = "none"
         /\ UNCHANGED << ntexts, next_item_id, history_states, history_index,
                         dragging, objects_changed, grabbed, rubber, keyboard_state, panning, zoom_level,
                    user_delete_callback,
                    view, handle_layout >>
    ELSE /\ raised' = "KeyError"
         /\ UNCHANGED << rects, texts, ntexts, objects, selected_objects,
                         next_item_id, history_states, history_index, dragging,
                         objects_changed, grabbed, rubber, keyboard_state, panning, zoom_level,
                    user_delete_callback,
                    view, handle_layout >>
         /\ fired' = NoCalls

\* InteractiveCanvas.select_all().
select_all ==
    /\ SetWorld(SelectAllIn(World, KeysInOrder(DOMAIN objects)))
    /\ raised' = "none"
    /\ UNCHANGED << ntexts, next_item_id, history_states, history_index,
                    dragging, objects_changed, grabbed, rubber, keyboard_state, panning, zoom_level,
                    user_delete_callback,
                    view, handle_layout >>

\* InteractiveCanvas.deselect_all().
deselect_all ==
    /\ SetWorld(DeselectAllIn(World, selected_objects))
    /\ raised' = "none"
    /\ UNCHANGED << ntexts, next_item_id, history_states, history_index,
                    dragging, objects_changed, grabbed, rubber, keyboard_state, panning, zoom_level,
                    user_delete_callback,
                    view, handle_layout >>

\* canvas.create_text(...) followed by attach_text_to_rectangle(text_id, rect).
attach_text_to_rectangle(r) ==
    /\ rects[r].drawn
    /\ ntexts' = ntexts + 1
    /\ texts' = texts \cup { ntexts + 1 }
    /\ rects' = [ rects EXCEPT ![r].attached = Append(@, ntexts + 1) ]
    /\ raised' = "none"
    /\ UNCHANGED << objects, selected_objects, next_item_id, history_states,
                    history_index, dragging, objects_changed, grabbed, rubber, keyboard_state, panning, zoom_level,
                    user_delete_callback,
                    view, handle_layout >>
    /\ fired' = NoCalls

\* InteractiveCanvas.save_state().
save_state ==
    LET out == SaveOutcome(rects, objects, selected_objects, next_item_id)
    IN  /\ history_states' = out.states
        /\ history_index' = out.index
        /\ raised' = out.raised
        /\ UNCHANGED << rects, texts, ntexts, objects, selected_objects,
                        next_item_id, dragging, objects_changed, grabbed, rubber, keyboard_state, panning, zoom_level,
                    user_delete_callback,
                    view, handle_layout >>
        /\ fired' = NoCalls

\* What undo and redo rewrite: the world, the id counter and the cursor.
Canvas ==
    [ world |-> World, next_item_id |-> next_item_id,
      history_index |-> history_index ]

SetCanvas(c) ==
    /\ SetWorld(c.world)
    /\ next_item_id' = c.next_item_id
    /\ history_index' = c.history_index

\* The cursor set to index and _restore_state(history_states[index]) run.
RestoredAt(index) ==
    [ world         |-> RestoreState(World, history_states[index + 1]),
      next_item_id  |-> history_states[index + 1].next_item_id,
      history_index |-> index ]

\* undo: one step back when the cursor is above 0, else nothing.
UndoResult ==
    IF history_index > 0 THEN RestoredAt(history_index - 1) ELSE Canvas

\* redo: one step forward when a later snapshot exists, else nothing.
RedoResult ==
    IF history_index < Len(history_states) - 1
    THEN RestoredAt(history_index + 1)
    ELSE Canvas

\* undo whose rebuild re-triggers the automatic snapshot of a creation.
undo_SavesRebuild ==
    /\ SetCanvas(UndoResult)
    /\ raised' = "none"
    /\ history_states' =
          IF history_index > 0
          THEN Append(history_states, history_states[history_index])
          ELSE history_states
    /\ UNCHANGED << ntexts, dragging, objects_changed, grabbed, rubber, keyboard_state, panning, zoom_level,
                    user_delete_callback,
                    view, handle_layout >>
    /\ fired' = NoCalls

\* InteractiveCanvas.undo().
undo ==
    /\ SetCanvas(UndoResult)
    /\ raised' = "none"
    /\ UNCHANGED << ntexts, history_states, dragging, objects_changed, grabbed, rubber, keyboard_state, panning, zoom_level,
                    user_delete_callback,
                    view, handle_layout >>

\* InteractiveCanvas.redo().
redo ==
    /\ SetCanvas(RedoResult)
    /\ raised' = "none"
    /\ UNCHANGED << ntexts, history_states, dragging, objects_changed, grabbed, rubber, keyboard_state, panning, zoom_level,
                    user_delete_callback,
                    view, handle_layout >>

(* ------------------------ align and distribute ----------------------- *)
\* DraggableRectangle.ALIGN_MODES and DISTRIBUTE_MODES.
ALIGN_MODES == { "top", "middle", "bottom", "start", "center", "end" }

DISTRIBUTE_MODES == { "horizontal", "vertical" }

\* get_topleft_pos(relative_pos=origin): the top-left corner minus the origin.
get_topleft_pos(rec, origin) ==
    << rec.coords[1] - origin[1], rec.coords[2] - origin[2] >>

\* get_size(): [width, height].
get_size(rec) ==
    << rec.coords[3] - rec.coords[1], rec.coords[4] - rec.coords[2] >>

\* align that handles mode bottom as mode top and mode end as mode start.
AlignTarget_IgnoresSize(rs, anchor, first, q, mode, origin) ==
    LET own == get_topleft_pos(rs[q], origin)
    IN  IF mode \in { "top", "bottom" } THEN << own[1], anchor[2] >>
        ELSE IF mode \in { "start", "end" } THEN << anchor[1], own[2] >>
        ELSE IF mode = "middle"
        THEN << own[1],
                anchor[2] + (get_size(rs[first])[2] \div 2) - (get_size(rs[q])[2] \div 2) >>
        ELSE << anchor[1] + (get_size(rs[first])[1] \div 2) - (get_size(rs[q])[1] \div 2),
                own[2] >>

\* align, lines 1087-1105: the position [x, y] computed for rectangle q, where
\* anchor is the top-left corner of the first rectangle read before the loop
\* and // is floor division.
AlignTarget(rs, anchor, first, q, mode, origin) ==
    LET own == get_topleft_pos(rs[q], origin)
        fs  == get_size(rs[first])
        qs  == get_size(rs[q])
    IN  IF mode = "top" THEN << own[1], anchor[2] >>
        ELSE IF mode = "middle"
        THEN << own[1], anchor[2] + (fs[2] \div 2) - (qs[2] \div 2) >>
        ELSE IF mode = "bottom" THEN << own[1], anchor[2] + fs[2] - qs[2] >>
        ELSE IF mode = "start" THEN << anchor[1], own[2] >>
        ELSE IF mode = "center"
        THEN << anchor[1] + (fs[1] \div 2) - (qs[1] \div 2), own[2] >>
        ELSE << anchor[1] + fs[1] - qs[1], own[2] >>

\* set_topleft_pos that also resets the selection flag of the rectangle.
SetTopLeftRelative_Deselects(rec, pos, origin) ==
    [ set_topleft_pos(rec, << pos[1] + origin[1], pos[2] + origin[2] >>)
        EXCEPT !.is_selected = FALSE ]

\* set_topleft_pos(new_pos, relative_pos=origin): the origin is added.
SetTopLeftRelative(rec, pos, origin) ==
    set_topleft_pos(rec, << pos[1] + origin[1], pos[2] + origin[2] >>)

\* The loop of align over the rest of the list.
RECURSIVE AlignLoop(_, _, _, _, _, _)
AlignLoop(rs, anchor, first, rest, mode, origin) ==
    IF rest = << >>
    THEN rs
    ELSE LET q == Head(rest)
         IN  AlignLoop([ rs EXCEPT ![q] = SetTopLeftRelative(
                             @, AlignTarget(rs, anchor, first, q, mode, origin), origin) ],
                       anchor, first, Tail(rest), mode, origin)

\* DraggableRectangle.align(rectangles, mode, relative_pos) on the instances.
Align(rs, list, mode, origin) ==
    IF list = << >>
    THEN rs
    ELSE AlignLoop(rs, get_topleft_pos(rs[Head(list)], origin), Head(list),
                   list, mode, origin)

\* list.sort(key=...): the element q put into the sorted list after every
\* element whose key is not larger (the sort is stable).
RECURSIVE InsertByKey(_, _, _)
InsertByKey(sorted, q, key) ==
    IF sorted = << >> THEN << q >>
    ELSE IF key[q] < key[Head(sorted)] THEN << q >> \o sorted
    ELSE << Head(sorted) >> \o InsertByKey(Tail(sorted), q, key)

RECURSIVE SortByKey(_, _)
SortByKey(list, key) ==
    IF list = << >> THEN << >>
    ELSE InsertByKey(SortByKey(SubSeq(list, 1, Len(list) - 1), key),
                     list[Len(list)], key)

RECURSIVE SumOf(_, _)
SumOf(list, size) ==
    IF list = << >> THEN 0 ELSE size[Head(list)] + SumOf(Tail(list), size)

\* 1 is the x axis, 2 the y axis.
AxisOf(mode) == IF mode = "horizontal" THEN 1 ELSE 2

\* The list of distribute after its sort by position along the axis.
Sorted(rs, list, mode, origin) ==
    SortByKey(list, [ q \in 1 .. Len(rs) |-> get_topleft_pos(rs[q], origin)[AxisOf(mode)] ])

\* distribute, lines 1139-1142 and 1152-1155: space_between, with // as floor
\* division.
SpaceBetween(rs, sorted, mode, origin) ==
    LET ax    == AxisOf(mode)
        total == SumOf(sorted, [ q \in 1 .. Len(rs) |-> get_size(rs[q])[ax] ])
        first == get_topleft_pos(rs[sorted[1]], origin)[ax]
        last  == get_topleft_pos(rs[sorted[Len(sorted)]], origin)[ax]
    IN  ((last - first) - total) \div (Len(sorted) - 1)

\* The loop of distribute: each rectangle is put at the running position,
\* which then advances by the rectangle's size plus space.
RECURSIVE DistributeLoop(_, _, _, _, _, _)
DistributeLoop(rs, rest, at, space, mode, origin) ==
    IF rest = << >>
    THEN rs
    ELSE LET q   == Head(rest)
             ax  == AxisOf(mode)
             own == get_topleft_pos(rs[q], origin)
             pos == IF ax = 1 THEN << at, own[2] >> ELSE << own[1], at >>
         IN  DistributeLoop([ rs EXCEPT ![q] = SetTopLeftRelative(@, pos, origin) ],
                            Tail(rest), at + get_size(rs[q])[ax] + space,
                            space, mode, origin)

\* DraggableRectangle.distribute(rectangles, mode, relative_pos) on the
\* instances.
Distribute(rs, list, mode, origin) ==
    IF Len(list) < 2
    THEN rs
    ELSE LET sorted == Sorted(rs, list, mode, origin)
         IN  DistributeLoop(rs, sorted,
                            get_topleft_pos(rs[sorted[1]], origin)[AxisOf(mode)],
                            SpaceBetween(rs, sorted, mode, origin), mode, origin)

\* DraggableRectangle.align(rectangles, mode, relative_pos=origin) for live
\* rectangles: ValueError for a mode that is not in ALIGN_MODES.
align(list, mode, origin) ==
    /\ \A i \in 1 .. Len(list) : rects[list[i]].drawn
    /\ IF mode \in ALIGN_MODES
       THEN /\ rects' = Align(rects, list, mode, origin)
            /\ raised' = "none"
       ELSE /\ rects' = rects
            /\ raised' = "ValueError"
    /\ fired' = NoCalls
    /\ UNCHANGED << texts, ntexts, objects, selected_objects, next_item_id,
                    history_states, history_index, dragging, objects_changed,
                    grabbed, rubber, keyboard_state, panning, zoom_level,
                    user_delete_callback,
                    view, handle_layout >>

\* DraggableRectangle.distribute(rectangles, mode, relative_pos=origin) for
\* live rectangles: ValueError for a mode that is not in DISTRIBUTE_MODES.
distribute(list, mode, origin) ==
    /\ \A i \in 1 .. Len(list) : rects[list[i]].drawn
    /\ IF mode \in DISTRIBUTE_MODES
       THEN /\ rects' = Distribute(rects, list, mode, origin)
            /\ raised' = "none"
       ELSE /\ rects' = rects
            /\ raised' = "ValueError"
    /\ fired' = NoCalls
    /\ UNCHANGED << texts, ntexts, objects, selected_objects, next_item_id,
                    history_states, history_index, dragging, objects_changed,
                    grabbed, rubber, keyboard_state, panning, zoom_level,
                    user_delete_callback,
                    view, handle_layout >>

(* ----------------------- operations on a rectangle -------------------- *)
\* canvas.coords(self.rect, x0, y0, x1, y1) followed by
\* canvas.coords(self.resize_handle, hx, hy).
Placed(rec, box, hpos) ==
    [ rec EXCEPT !.coords = TkBox(box), !.handle = hpos ]

\* The result of a method of one instance: the instance afterwards and the
\* exception raised, "none" if the method returned.
Done(rec) == [ rect |-> rec, raised |-> "none" ]

Failed(rec, exc) == [ rect |-> rec, raised |-> exc ]

\* x1 <= x0 or y1 <= y0.
Invalid(c) == c[3] <= c[1] \/ c[4] <= c[2]

\* __setitem__ without the test of the new coordinates.
SetItem_Unchecked(rec, index, value) ==
    IF index < -4 \/ index >= 4
    THEN Failed(rec, "IndexError")
    ELSE LET k == IF index < 0 THEN index + 5 ELSE index + 1
             c == [ rec.coords EXCEPT ![k] = value ]
         IN  Done(Placed(rec, c, << c[3], c[4] >>))

\* DraggableRectangle.__setitem__(index, value): a list index of Python, so
\* that -4 .. -1 name the coordinates from the end.
SetItem(rec, index, value) ==
    IF index < -4 \/ index >= 4
    THEN Failed(rec, "IndexError")
    ELSE LET k == IF index < 0 THEN index + 5 ELSE index + 1
             c == [ rec.coords EXCEPT ![k] = value ]
         IN  IF Invalid(c)
             THEN Failed(rec, "ValueError")
             ELSE Done(Placed(rec, c, << c[3], c[4] >>))

\* DraggableRectangle.__iadd__(offset) and __isub__(offset).
IAdd(rec, d) == Done(MoveBy(rec, d[1], d[2]))

ISub(rec, d) == IAdd(rec, << 0 - d[1], 0 - d[2] >>)

\* The binary64 values (x0, y0, x1, y1) scaled about their centre by the
\* binary64 value scalar, as __mul__ and __imul__ compute them: the centre
\* (x0 + x1) / 2 minus and plus the half size (x1 - x0) / 2 times scalar.
ScaledSpan(lo, hi, scalar) ==
    [ centre   |-> float_truediv(float_add(lo, hi), Double(2)),
      new_half |-> float_mul(float_truediv(float_sub(hi, lo), Double(2)), scalar) ]

ScaledBox(s, scalar) ==
    << float_sub(ScaledSpan(s[1], s[3], scalar).centre, ScaledSpan(s[1], s[3], scalar).new_half),
       float_sub(ScaledSpan(s[2], s[4], scalar).centre, ScaledSpan(s[2], s[4], scalar).new_half),
       float_add(ScaledSpan(s[1], s[3], scalar).centre, ScaledSpan(s[1], s[3], scalar).new_half),
       float_add(ScaledSpan(s[2], s[4], scalar).centre, ScaledSpan(s[2], s[4], scalar).new_half) >>

\* The instance with its rectangle at the binary64 values s and its handle at
\* (s[3], s[4]).
Rescaled(rec, s) == Placed(rec, Kept(s), Kept(<< s[3], s[4] >>))

\* DraggableRectangle.__imul__(scalar) for the binary64 value scalar; an int
\* scalar acts as its float.
IMul(rec, scalar) ==
    IF scalar.neg
    THEN Failed(rec, "ValueError")
    ELSE Done(Rescaled(rec, ScaledBox(Floats(rec.coords), scalar)))

\* DraggableRectangle.__itruediv__(scalar) for an integer scalar: __imul__ of
\* the float 1 / scalar.
ITrueDiv(rec, scalar) ==
    IF scalar = 0 THEN Failed(rec, "ZeroDivisionError")
    ELSE IF scalar < 0 THEN Failed(rec, "ValueError")
    ELSE IMul(rec, float_truediv(Double(1), Double(scalar)))

\* DraggableRectangle.set_bottomright_pos(new_pos).
SetBottomRightPos(rec, pos) ==
    Done(Placed(rec, << rec.coords[1], rec.coords[2], pos[1], pos[2] >>, pos))

\* DraggableRectangle.set_size(new_size).
SetSize(rec, size) ==
    LET x == rec.coords[1] + size[1]
        y == rec.coords[2] + size[2]
    IN  Done(Placed(rec, << rec.coords[1], rec.coords[2], x, y >>, << x, y >>))

ANGLES == { 90, 180, -90, -180 }

ANCHORS == { "topleft", "topright", "bottomleft", "bottomright", "center" }

\* safe_rotate: the box of the given size put at the anchor of the box s, all
\* of them binary64 values. The centre is (x0 + x1) / 2, and the box reaches
\* width / 2 to either side of it.
Anchored(s, width, height, anchor) ==
    IF anchor = "topleft"
    THEN << s[1], s[2], float_add(s[1], width), float_add(s[2], height) >>
    ELSE IF anchor = "topright"
    THEN << float_sub(s[3], width), s[2], s[3], float_add(s[2], height) >>
    ELSE IF anchor = "bottomleft"
    THEN << s[1], float_sub(s[4], height), float_add(s[1], width), s[4] >>
    ELSE IF anchor = "bottomright"
    THEN << float_sub(s[3], width), float_sub(s[4], height), s[3], s[4] >>
    ELSE << float_sub(float_truediv(float_add(s[1], s[3]), Double(2)),
                      float_truediv(width, Double(2))),
            float_sub(float_truediv(float_add(s[2], s[4]), Double(2)),
                      float_truediv(height, Double(2))),
            float_add(float_truediv(float_add(s[1], s[3]), Double(2)),
                      float_truediv(width, Double(2))),
            float_add(float_truediv(float_add(s[2], s[4]), Double(2)),
                      float_truediv(height, Double(2))) >>

\* The box s turned by the angle about the anchor: width and height change
\* places for 90 and -90.
Rotated(s, angle, anchor) ==
    IF angle \in { 90, -90 }
    THEN Anchored(s, float_sub(s[4], s[2]), float_sub(s[3], s[1]), anchor)
    ELSE Anchored(s, float_sub(s[3], s[1]), float_sub(s[4], s[2]), anchor)

\* DraggableRectangle.safe_rotate(angle, anchor).
SafeRotate(rec, angle, anchor) ==
    IF angle \notin ANGLES \/ anchor \notin ANCHORS
    THEN Failed(rec, "ValueError")
    ELSE Done(Rescaled(rec, Rotated(Floats(rec.coords), angle, anchor)))

\* The instance that an operator returns: DraggableRectangle(self.canvas, x1,
\* y1, x2, y2, dpi=self.dpi, outline=self.original_outline).
Derived(rec, box) == Done(DraggableRectangle(box, rec.dpi, rec.original_outline))

\* DraggableRectangle.__add__, __sub__ and __rsub__.
Add(rec, d) ==
    Derived(rec, << rec.coords[1] + d[1], rec.coords[2] + d[2],
                    rec.coords[3] + d[1], rec.coords[4] + d[2] >>)

Sub(rec, d) == Add(rec, << 0 - d[1], 0 - d[2] >>)

RSub(rec, d) ==
    Derived(rec, << d[1] - rec.coords[1], d[2] - rec.coords[2],
                    d[1] + (rec.coords[3] - rec.coords[1]),
                    d[2] + (rec.coords[4] - rec.coords[2]) >>)

\* __mul__ that refuses the factor 0 as well.
Mul_RefusesZero(rec, scalar) ==
    IF scalar.neg \/ scalar.man = << >>
    THEN Failed(rec, "ValueError")
    ELSE Derived(rec, Kept(ScaledBox(Floats(rec.coords), scalar)))

\* DraggableRectangle.__mul__(scalar) for the binary64 value scalar; an int
\* scalar acts as its float.
Mul(rec, scalar) ==
    IF scalar.neg
    THEN Failed(rec, "ValueError")
    ELSE Derived(rec, Kept(ScaledBox(Floats(rec.coords), scalar)))

\* DraggableRectangle.__truediv__(scalar) for an integer scalar: __mul__ of
\* the float 1 / scalar.
TrueDiv(rec, scalar) ==
    IF scalar = 0 THEN Failed(rec, "ZeroDivisionError")
    ELSE IF scalar < 0 THEN Failed(rec, "ValueError")
    ELSE Mul(rec, float_truediv(Double(1), Double(scalar)))

\* DraggableRectangle.__floordiv__(scalar) for an integer scalar: __mul__ of
\* the int 1 // scalar.
FloorDiv(rec, scalar) ==
    IF scalar = 0 THEN Failed(rec, "ZeroDivisionError")
    ELSE IF scalar < 0 THEN Failed(rec, "ValueError")
    ELSE Mul(rec, Double(1 \div scalar))

\* DraggableRectangle.__neg__ and __abs__.
Neg(rec) ==
    Derived(rec, << 0 - rec.coords[3], 0 - rec.coords[4],
                    0 - rec.coords[1], 0 - rec.coords[2] >>)

AbsOf(rec) ==
    Derived(rec, << Abs(rec.coords[1]), Abs(rec.coords[2]),
                    Abs(rec.coords[3]), Abs(rec.coords[4]) >>)

Max(a, b) == IF a >= b THEN a ELSE b

Min(a, b) == IF a <= b THEN a ELSE b

\* __and__ that returns a box for rectangles that only touch.
And_JoinsTouching(rec, other) ==
    LET c == << Max(rec.coords[1], other.coords[1]), Max(rec.coords[2], other.coords[2]),
                Min(rec.coords[3], other.coords[3]), Min(rec.coords[4], other.coords[4]) >>
    IN  IF c[1] > c[3] \/ c[2] > c[4]
        THEN [ rect |-> None, raised |-> "none" ]
        ELSE Derived(rec, c)

\* DraggableRectangle.__and__: the intersection, or None (no instance) when
\* the rectangles do not overlap in an area.
And(rec, other) ==
    LET c == << Max(rec.coords[1], other.coords[1]), Max(rec.coords[2], other.coords[2]),
                Min(rec.coords[3], other.coords[3]), Min(rec.coords[4], other.coords[4]) >>
    IN  IF c[1] >= c[3] \/ c[2] >= c[4]
        THEN [ rect |-> None, raised |-> "none" ]
        ELSE Derived(rec, c)

\* DraggableRectangle._area().
Area(rec) == (rec.coords[3] - rec.coords[1]) * (rec.coords[4] - rec.coords[2])

\* DraggableRectangle.__or__: the bounding box of the two.
Or(rec, other) ==
    Derived(rec, << Min(rec.coords[1], other.coords[1]), Min(rec.coords[2], other.coords[2]),
                    Max(rec.coords[3], other.coords[3]), Max(rec.coords[4], other.coords[4]) >>)

\* A method of instance r has ended with result res: the instance is as the
\* method left it.
update(r, res) ==
    /\ rects[r].drawn
    /\ rects' = [ rects EXCEPT ![r] = res.rect ]
    /\ raised' = res.raised
    /\ fired' = NoCalls
    /\ UNCHANGED << texts, ntexts, objects, selected_objects, next_item_id,
                    history_states, history_index, dragging, objects_changed,
                    grabbed, rubber, keyboard_state, panning, zoom_level,
                    user_delete_callback,
                    view, handle_layout >>

\* An operator of instance r has ended with result res: the instance it
\* returned, if any, exists beside the others.
derive(r, res) ==
    /\ rects[r].drawn
    /\ rects' = IF res.raised = "none" /\ res.rect # None
                THEN Append(rects, res.rect)
                ELSE rects
    /\ raised' = res.raised
    /\ fired' = NoCalls
    /\ UNCHANGED << texts, ntexts, objects, selected_objects, next_item_id,
                    history_states, history_index, dragging, objects_changed,
                    grabbed, rubber, keyboard_state, panning, zoom_level,
                    user_delete_callback,
                    view, handle_layout >>

(* -------------------------------- zoom -------------------------------- *)
\* The zoom level and the zoom factors are binary64 values.

\* InteractiveCanvas.__init__: self.min_zoom = 0.1 and self.max_zoom = 10.0.
min_zoom == Literal(1, 10)

max_zoom == Double(10)

\* canvas.scale on one coordinate: Tk computes origin + scale * (x - origin) in
\* doubles, each operation rounded by itself.
ScaleCoord(x, o, f) == float_add(o, float_mul(f, float_sub(x, o)))

\* The binary64 values b of a box scaled about the point c by the factor f.
ScaleBox(b, c, f) ==
    << ScaleCoord(b[1], c[1], f), ScaleCoord(b[2], c[2], f),
       ScaleCoord(b[3], c[1], f), ScaleCoord(b[4], c[2], f) >>

ScalePoint(h, c, f) == << ScaleCoord(h[1], c[1], f), ScaleCoord(h[2], c[2], f) >>

\* canvas.scale("all", cx, cy, f, f) on the items of one instance, for a
\* factor f that is not 0. Tk keeps the scaled corners of a rectangle item
\* with the lower coordinate of each axis first, so that a negative factor
\* makes them change places.
ScaleRect(rec, c, f) ==
    IF rec.drawn
    THEN [ rec EXCEPT !.coords = TkBox(Kept(ScaleBox(Floats(@), c, f))),
                      !.handle = Kept(ScalePoint(Floats(@), c, f)) ]
    ELSE rec

\* The zoom level is set and every item of the surface is scaled about the
\* view centre c (get_view_center) by the factor f: the rectangles, their
\* handles and the rubber band's rectangle. No image is tracked. Tk refuses
\* the factor 0: canvas.scale raises TclError after the zoom level was set,
\* and no item is scaled.
ZoomTo(new_zoom, c, f) ==
    /\ zoom_level' = new_zoom
    /\ IF f.man = << >>
       THEN /\ raised' = "TclError"
            /\ UNCHANGED << rects, rubber >>
       ELSE /\ raised' = "none"
            /\ rects' = [ r \in 1 .. Len(rects) |-> ScaleRect(rects[r], c, f) ]
            /\ rubber' = IF rubber.rect = None THEN rubber
                         ELSE [ rubber EXCEPT
                                  !.rect = TkBox(Kept(ScaleBox(Floats(@), c, f))) ]

\* zoom_in that accepts every new zoom level.
AcceptsZoomIn_Always(new_zoom) == TRUE

\* zoom_in's test of the new zoom level: new_zoom <= self.max_zoom.
AcceptsZoomIn(new_zoom) == float_le(new_zoom, max_zoom)

\* zoom_out's test of the new zoom level: new_zoom >= self.min_zoom.
AcceptsZoomOut(new_zoom) == float_le(min_zoom, new_zoom)

\* InteractiveCanvas.zoom_in(factor) with enable_zoom at its default, for the
\* binary64 value factor, the view centre being the point c of whole numbers:
\* new_zoom = self.zoom_level * factor.
zoom_in(factor, c) ==
    \E new_zoom \in { float_mul(zoom_level, factor) } :
        /\ IF AcceptsZoomIn(new_zoom)
           THEN ZoomTo(new_zoom, << Double(c[1]), Double(c[2]) >>, factor)
           ELSE /\ raised' = "none"
                /\ UNCHANGED << zoom_level, rects, rubber >>
        /\ fired' = NoCalls
        /\ UNCHANGED << texts, ntexts, objects, selected_objects, next_item_id,
                        history_states, history_index, dragging,
                        objects_changed, grabbed, keyboard_state, panning,
                        user_delete_callback, view, handle_layout >>

\* InteractiveCanvas.zoom_out(factor): new_zoom = self.zoom_level / factor, and
\* the items are scaled by the float 1 / factor. For the factor 0 the
\* division raises ZeroDivisionError before anything is written.
zoom_out(factor, c) ==
    /\ IF factor.man = << >>
       THEN /\ raised' = "ZeroDivisionError"
            /\ UNCHANGED << zoom_level, rects, rubber >>
       ELSE \E new_zoom \in { float_truediv(zoom_level, factor) },
               scale \in { float_truediv(Double(1), factor) } :
                IF AcceptsZoomOut(new_zoom)
                THEN ZoomTo(new_zoom, << Double(c[1]), Double(c[2]) >>, scale)
                ELSE /\ raised' = "none"
                     /\ UNCHANGED << zoom_level, rects, rubber >>
    /\ fired' = NoCalls
    /\ UNCHANGED << texts, ntexts, objects, selected_objects, next_item_id,
                    history_states, history_index, dragging,
                    objects_changed, grabbed, keyboard_state, panning,
                    user_delete_callback, view, handle_layout >>

(* --------------------------- pointer events --------------------------- *)
\* An event carries the pointer's position in the window (event.x, event.y);
\* the items lie at canvas coordinates.

\* canvasx / canvasy: the canvas point shown at the window position e.
CanvasPoint(v, e) == << e[1] + v.origin[1], e[2] + v.origin[2] >>

\* The window position at which the canvas point p is shown.
WindowPoint(v, p) == << p[1] - v.origin[1], p[2] - v.origin[2] >>

\* Canvas.scan_mark(x, y): the position and the view's origin are recorded.
ScanMark(v, e) == [ v EXCEPT !.scan = e, !.scan_origin = v.origin ]

\* Canvas.scan_dragto(x, y, gain=1): the view moves to the recorded origin
\* less the distance of (x, y) from the recorded position (no scroll region
\* and no scroll increment is configured).
ScanDragTo(v, e) ==
    [ v EXCEPT !.origin = << v.scan_origin[1] - (e[1] - v.scan[1]),
                             v.scan_origin[2] - (e[2] - v.scan[2]) >> ]

\* Tk delivers a button press at the point p to the topmost item whose
\* distance from p is at most the canvas's closeEnough, 1.0 by default. The
\* rectangle item at c is unfilled with an outline of width 1: its distance
\* from a point within the outline's outer edge is the distance to that edge
\* less the width, and from a point outside it the distance to that edge. For
\* whole coordinates: p is at most 1 away from the box c on each axis and
\* not more than 1 inside all four of its sides.
OnOutline(c, p) ==
    /\ c[1] - 1 <= p[1] /\ p[1] <= c[3] + 1
    /\ c[2] - 1 <= p[2] /\ p[2] <= c[4] + 1
    /\ ~ ( /\ c[1] + 1 < p[1] /\ p[1] < c[3] - 1
           /\ c[2] + 1 < p[2] /\ p[2] < c[4] - 1 )

\* The distance, along one axis, of the offset x from the span 0 .. size - 1
\* of a text layout, as Tk measures it.
LayoutDiff(x, size) ==
    IF x < 0 THEN 0 - x ELSE IF x >= size THEN x - size + 1 ELSE 0

\* The resize handle of rec gets a press at the canvas point p: the distance
\* of p from the rectangle of the handle's text layout, which Tk takes as the
\* integer part of hypot(xDiff, yDiff), is at most closeEnough = 1.
HandleCovers(rec, p) ==
    LET xDiff == LayoutDiff(p[1] - (rec.handle[1] - handle_layout.width \div 2),
                            handle_layout.width)
        yDiff == LayoutDiff(p[2] - (rec.handle[2] - handle_layout.height \div 2),
                            handle_layout.height)
    IN  xDiff * xDiff + yDiff * yDiff < 4

\* No item of a rectangle created after r lies over the canvas point p, so
\* that a press at p reaches the tag bindings of an item of r.
Uncovered(r, p) ==
    \A q \in (r + 1) .. Len(rects) :
        rects[q].drawn =>
            ~ OnOutline(rects[q].coords, p) /\ ~ HandleCovers(rects[q], p)

\* The modifier keys an event reports in event.state: Shift (0x0001) and
\* Ctrl (0x0004).
Modifiers == [ shift : BOOLEAN, ctrl : BOOLEAN ]

NoModifier == [ shift |-> FALSE, ctrl |-> FALSE ]

\* InteractiveCanvas.on_click, lines 441-447: the ids, in the order of
\* objects, whose rectangle item find_overlapping(x, y, x + 1, y + 1) returns.
ClickedIn(w, p) ==
    SelectSeq(KeysInOrder(DOMAIN w.objects),
              LAMBDA id : /\ w.rects[w.objects[id]].drawn
                          /\ Overlaps(<< p[1], p[2], p[1] + 1, p[2] + 1 >>,
                                      w.rects[w.objects[id]].coords))

ClickedIds(p) == ClickedIn(World, p)

\* toggle_selection on a world.
ToggleIn(w, id) ==
    IF w.rects[w.objects[id]].is_selected THEN DeselectIn(w, id) ELSE SelectIn(w, id)

\* on_click, lines 448-458, on the tracked rectangle id: toggled (Shift and
\* not selected), made the only selected one (no Shift and not selected, or
\* Ctrl, or nothing selected) or left alone.
ClickOn(w, id, m) ==
    LET sel == w.rects[w.objects[id]].is_selected
        one == SelectIn(DeselectAllIn(w, w.selected), id)
    IN  IF m.shift /\ ~ sel THEN ToggleIn(w, id)
        ELSE IF ~ m.shift /\ ~ sel THEN one
        ELSE IF m.ctrl THEN one
        ELSE IF Len(w.selected) < 1 THEN one
        ELSE w

\* on_click that starts dragging on empty space without deselecting.
OnClick_KeepsSelection(w, e, m) ==
    LET hit == ClickedIn(w, CanvasPoint(view, e))
    IN  IF panning
        THEN [ world |-> w, dragging |-> dragging, view |-> ScanMark(view, e) ]
        ELSE IF hit = << >>
        THEN [ world |-> w, dragging |-> TRUE, view |-> view ]
        ELSE [ world |-> ClickOn(w, Head(hit), m), dragging |-> dragging,
               view |-> view ]

\* on_click without its test of panning.
OnClick_IgnoresPanning(w, e, m) ==
    LET hit == ClickedIn(w, CanvasPoint(view, e))
    IN  IF hit = << >>
        THEN [ world |-> DeselectAllIn(w, w.selected), dragging |-> TRUE,
               view |-> view ]
        ELSE [ world |-> ClickOn(w, Head(hit), m), dragging |-> dragging,
               view |-> view ]

\* InteractiveCanvas.on_click at the window position e with the modifiers m,
\* lines 431-461: while panning only the view is marked for scrolling
\* (scan_mark); else the first rectangle clicked at the canvas point of e is
\* handled and the handler returns; with nothing clicked everything is
\* deselected and dragging starts.
OnClick(w, e, m) ==
    LET hit == ClickedIn(w, CanvasPoint(view, e))
    IN  IF panning
        THEN [ world |-> w, dragging |-> dragging, view |-> ScanMark(view, e) ]
        ELSE IF hit = << >>
        THEN [ world |-> DeselectAllIn(w, w.selected), dragging |-> TRUE,
               view |-> view ]
        ELSE [ world |-> ClickOn(w, Head(hit), m), dragging |-> dragging,
               view |-> view ]

\* Button-1 pressed with the modifiers m on the outline of rectangle r at its
\* top-left corner: DraggableRectangle.on_click stores the window position of
\* the event, then the canvas's on_click runs.
press_body_with(r, m) ==
    LET p == << rects[r].coords[1], rects[r].coords[2] >>
        e == WindowPoint(view, p)
        w == [ World EXCEPT !.rects[r].start = e ]
        c == OnClick(w, e, m)
    IN  /\ grabbed = None
        /\ rects[r].drawn
        /\ ~ HandleCovers(rects[r], p)
        /\ Uncovered(r, p)
        /\ SetWorld(c.world)
        /\ dragging' = c.dragging
        /\ view' = c.view
        /\ grabbed' = [ rect |-> r, part |-> "body" ]
        /\ raised' = "none"
        /\ UNCHANGED << ntexts, next_item_id, history_states, history_index,
                        objects_changed, rubber, keyboard_state, panning, zoom_level,
                        user_delete_callback, handle_layout >>

press_body(r) == press_body_with(r, NoModifier)

\* Button-1 pressed with the modifiers m on the resize handle of rectangle r
\* at its centre: DraggableRectangle.on_resize_click stores the window
\* position of the event, then the canvas's on_click runs.
press_handle_with(r, m) ==
    LET p == rects[r].handle
        e == WindowPoint(view, p)
        w == [ World EXCEPT !.rects[r].resize_start = e ]
        c == OnClick(w, e, m)
    IN  /\ grabbed = None
        /\ rects[r].drawn
        /\ Uncovered(r, p)
        /\ SetWorld(c.world)
        /\ dragging' = c.dragging
        /\ view' = c.view
        /\ grabbed' = [ rect |-> r, part |-> "handle" ]
        /\ raised' = "none"
        /\ UNCHANGED << ntexts, next_item_id, history_states, history_index,
                        objects_changed, rubber, keyboard_state, panning, zoom_level,
                        user_delete_callback, handle_layout >>

press_handle(r) == press_handle_with(r, NoModifier)

\* No rectangle item and no handle lies at the canvas point p.
NoItemAt(p) ==
    \A q \in 1 .. Len(rects) :
        rects[q].drawn =>
            ~ OnOutline(rects[q].coords, p) /\ ~ HandleCovers(rects[q], p)

\* Button-1 pressed with the modifiers m at the window position e where no
\* item lies: only the canvas's on_click runs.
press_canvas(e, m) ==
    LET c == OnClick(World, e, m)
    IN  /\ grabbed = None
        /\ NoItemAt(CanvasPoint(view, e))
        /\ SetWorld(c.world)
        /\ dragging' = c.dragging
        /\ view' = c.view
        /\ grabbed' = [ rect |-> 0, part |-> "canvas" ]
        /\ raised' = "none"
        /\ UNCHANGED << ntexts, next_item_id, history_states, history_index,
                        objects_changed, rubber, keyboard_state, panning, zoom_level,
                        user_delete_callback, handle_layout >>

\* The region (x0, y0, x1, y1) with its corners in increasing order, as
\* Canvas.find_enclosed reads it.
Normalised(a) ==
    << IF a[1] <= a[3] THEN a[1] ELSE a[3], IF a[2] <= a[4] THEN a[2] ELSE a[4],
       IF a[1] <= a[3] THEN a[3] ELSE a[1], IF a[2] <= a[4] THEN a[4] ELSE a[2] >>

\* Canvas.find_enclosed on the rectangle item at c: the item, its outline of
\* width 1 included, lies completely within the region.
Enclosed(area, c) ==
    LET a == Normalised(area)
    IN  a[1] < c[1] /\ c[3] < a[3] /\ a[2] < c[2] /\ c[4] < a[4]

\* update_selection_area: every tracked rectangle that is enclosed and not
\* selected is selected, every one that is selected and not enclosed is
\* deselected.
RECURSIVE UpdateSelectionArea(_, _, _)
UpdateSelectionArea(w, area, ids) ==
    IF ids = << >>
    THEN w
    ELSE LET id  == Head(ids)
             rec == w.rects[w.objects[id]]
             enc == rec.drawn /\ Enclosed(area, rec.coords)
         IN  UpdateSelectionArea(
                 IF enc /\ ~ rec.is_selected THEN SelectIn(w, id)
                 ELSE IF ~ enc /\ rec.is_selected THEN DeselectIn(w, id)
                 ELSE w,
                 area, Tail(ids))

\* InteractiveCanvas.on_drag_select at the window position e: while panning
\* only the view is scrolled (scan_dragto); else nothing unless dragging; the
\* first event away from every tracked rectangle creates the selection
\* rectangle at the canvas point of e; a later event stretches it to that
\* point (Tk keeps its corners in increasing order) and updates the selection.
OnDragSelect(w, band, e) ==
    LET p == CanvasPoint(view, e)
    IN  IF panning
        THEN [ world |-> w, rubber |-> band, view |-> ScanDragTo(view, e) ]
        ELSE IF ~ dragging
        THEN [ world |-> w, rubber |-> band, view |-> view ]
        ELSE IF band.start = None
        THEN IF ClickedIn(w, p) # << >>
             THEN [ world |-> w, rubber |-> band, view |-> view ]
             ELSE [ world  |-> w,
                    rubber |-> [ start |-> p, rect |-> << p[1], p[2], p[1], p[2] >> ],
                    view   |-> view ]
        ELSE LET area == << band.start[1], band.start[2], p[1], p[2] >>
             IN  [ world  |-> UpdateSelectionArea(w, area, KeysInOrder(DOMAIN w.objects)),
                   rubber |-> [ band EXCEPT !.rect = TkBox(area) ],
                   view   |-> view ]

\* InteractiveCanvas.update_selection_area(x0, y0, x1, y1) called with the
\* region area, lines 583-598.
update_selection_area(area) ==
    /\ SetWorld(UpdateSelectionArea(World, area, KeysInOrder(DOMAIN objects)))
    /\ raised' = "none"
    /\ UNCHANGED << ntexts, next_item_id, history_states, history_index,
                    dragging, objects_changed, grabbed, rubber, keyboard_state,
                    panning, zoom_level, user_delete_callback, view,
                    handle_layout >>

(* ------------------------- floating point ----------------------------- *)
\* The handlers of the pointer's motions compute with IEEE 754 doubles. There
\* a double is modelled as the fraction num / den plus an error err, counted in units of 2^-70 and far
\* smaller than 1 / den; it is a whole number where den divides num and err
\* is 0; a value that is not whole is kept up to the rounding of the
\* operation that gave it.
\* The coordinates of an item are whole numbers until an event under Shift
\* sets doubles that are not; they are kept as Doubles then, and the
\* specifications send no further event to such a rectangle.
Flt(n) == [ num |-> n, den |-> 1, err |-> 0 ]

Whole(v) == v.num % v.den = 0 /\ v.err = 0

Val(v) == v.num \div v.den

FNeg(v) == [ v EXCEPT !.num = 0 - @, !.err = 0 - @ ]

Sign(x) == IF x > 0 THEN 1 ELSE IF x < 0 THEN 0 - 1 ELSE 0

\* Half the distance from the whole number r # 0 to the next double on the
\* side s (1: above, -1: below), in units of 2^-70; the doubles below a power
\* of two lie twice as close as the ones above it.
HalfGap(r, s) ==
    LET R == Log2(Abs(r))
    IN  IF Sign(r) # s /\ Abs(r) = 2 ^ R THEN 2 ^ (R + 16) ELSE 2 ^ (R + 17)

\* c + v for a whole c, rounded to the nearest double (ties to even): an
\* error of v of at most half a gap is lost in a sum that is not 0.
FAdd(c, v) ==
    IF v.num % v.den # 0
    THEN [ num |-> c * v.den + v.num, den |-> v.den, err |-> 0 ]
    ELSE LET r == c + Val(v)
         IN  IF v.err = 0 THEN Flt(r)
             ELSE IF r # 0 /\ Abs(v.err) <= HalfGap(r, Sign(v.err)) THEN Flt(r)
             ELSE [ num |-> r, den |-> 1, err |-> v.err ]

\* a < b.
FLess(a, b) ==
    \/ a.num * b.den < b.num * a.den
    \/ a.num * b.den = b.num * a.den /\ a.err < b.err

\* n is the square of a whole number.
IsSquare(n) == \E d \in 0 .. n : d * d = n

\* math.sqrt of a square.
WholeRoot(n) == CHOOSE d \in 0 .. n : d * d = n

\* m with its factors of two removed.
RECURSIVE OddPart(_)
OddPart(m) == IF m % 2 = 0 /\ m # 0 THEN OddPart(m \div 2) ELSE m

\* math.cos(math.radians(90)) = 6.123233995736766e-17 and
\* math.sin(math.radians(180)) = 1.2246467991473532e-16, in units of 2^-70.
cos90 == 72290

sin180 == 144580

\* math.cos(math.radians(45)) = 0.7071067811865476 lies above 1 / sqrt(2) and
\* math.sin(math.radians(45)) = 0.7071067811865475 below it. For the length
\* math.sqrt(2 * m * m) of a diagonal, the product with the first is m or the
\* next double above m, the product with the second m or the next double
\* below m. The odd m below 256 whose product is not m (the outcome for m
\* and 2 * m is the same):
RoundsUp ==
    { 1, 5, 7, 15, 25, 27, 35, 37, 45, 49, 55, 59, 61, 69, 75, 79, 85, 93, 95,
      103, 105, 107, 113, 115, 117, 123, 125, 127, 133, 135, 143, 145, 153,
      155, 163, 165, 175, 177, 185, 191, 195, 201, 205, 211, 215, 219, 221,
      225, 229, 231, 235, 239, 241, 245, 249, 251, 255 }

RoundsDown ==
    { 3, 7, 9, 11, 13, 17, 21, 23, 29, 31, 39, 41, 47, 51, 53, 57, 61, 63, 67,
      73, 77, 83, 87, 89, 91, 97, 99, 101, 107, 109, 111, 117, 119, 121, 127,
      129, 131, 139, 141, 149, 151, 159, 161, 169, 171, 173, 179, 181, 183,
      187, 189, 193, 197, 199, 203, 207, 209, 213, 217, 219, 223, 227, 229,
      233, 237, 239, 243, 247, 249, 253 }

\* on_drag, lines 1236-1241: round(degrees(atan2(dy, dx)) / 45) is 0 or 4 or
\* -4, i.e. the direction of (dx, dy) lies within 22.5 degrees of the x axis:
\* |dy| / |dx| < tan(22.5 degrees) = sqrt(2) - 1.
SnapsToX(dx, dy) ==
    (Abs(dx) + Abs(dy)) * (Abs(dx) + Abs(dy)) < 2 * dx * dx

\* The direction of (dx, dy) lies within 22.5 degrees of the y axis.
SnapsToY(dx, dy) ==
    (Abs(dx) + Abs(dy)) * (Abs(dx) + Abs(dy)) < 2 * dy * dy

\* on_drag, lines 1243-1244, for a delta that snaps to a diagonal of length
\* sqrt(2) * m: (+-m, +-m), each component with the rounding error of its
\* product; cos is the factor above 1 / sqrt(2) for 45 and -45 degrees, sin
\* for 135 and -135 degrees.
Diagonal(dx, dy, m) ==
    LET gap  == 2 ^ (Log2(m) + 18)
        up   == IF OddPart(m) \in RoundsUp THEN gap ELSE 0
        down == IF OddPart(m) \in RoundsDown THEN 0 - gap ELSE 0
    IN  << [ num |-> Sign(dx) * m, den |-> 1,
             err |-> Sign(dx) * (IF dx > 0 THEN up ELSE down) ],
           [ num |-> Sign(dy) * m, den |-> 1,
             err |-> Sign(dy) * (IF dx > 0 THEN down ELSE up) ] >>

\* on_drag, lines 1229-1244: the distance every selected rectangle moves by
\* for the pointer delta (dx, dy), a pair of doubles. Without Shift it is the
\* delta; with Shift and a delta of (0, 0) the handler returns at once; else
\* the delta is turned onto the nearest multiple of 45 degrees, keeping its
\* length: (d, 0) at 0 degrees, (d * cos 90, +-d) at 90 and -90 degrees,
\* (-d, +-d * sin 180) at 180 and -180 degrees, and a diagonal. None stands
\* for a result with a component that is no whole number give or take a
\* rounding error, and for a diagonal beyond the table.
AngleLock(dx, dy, shift_held) ==
    LET n == dx * dx + dy * dy
    IN  IF ~ shift_held THEN << Flt(dx), Flt(dy) >>
        ELSE IF dx = 0 /\ dy = 0 THEN << Flt(0), Flt(0) >>
        ELSE IF SnapsToX(dx, dy)
        THEN IF ~ IsSquare(n) THEN None
             ELSE IF dx > 0 THEN << Flt(WholeRoot(n)), Flt(0) >>
             ELSE << Flt(0 - WholeRoot(n)),
                     [ num |-> 0, den |-> 1,
                       err |-> (IF dy >= 0 THEN 1 ELSE 0 - 1) * WholeRoot(n) * sin180 ] >>
        ELSE IF SnapsToY(dx, dy)
        THEN IF ~ IsSquare(n) THEN None
             ELSE << [ num |-> 0, den |-> 1, err |-> WholeRoot(n) * cos90 ],
                     Flt(Sign(dy) * WholeRoot(n)) >>
        ELSE IF n % 2 # 0 \/ ~ IsSquare(n \div 2) THEN None
        ELSE IF OddPart(WholeRoot(n \div 2)) >= 256 THEN None
        ELSE Diagonal(dx, dy, WholeRoot(n \div 2))

\* Coordinates n that are not all whole numbers.
Doubles(n) == << [ doubles |-> n ] >>

\* The coordinates of rec are whole numbers.
HasWholeCoords(rec) == Len(rec.coords) = 4

\* on_drag, lines 1247-1248: canvas.move of the rectangle item and of the
\* handle by the doubles (vx, vy); Tk adds them to every coordinate.
CanvasMove(rec, vx, vy) ==
    IF ~ rec.drawn THEN rec
    ELSE IF /\ \A x \in { rec.coords[1], rec.coords[3], rec.handle[1] } :
                  Whole(FAdd(x, vx))
            /\ \A y \in { rec.coords[2], rec.coords[4], rec.handle[2] } :
                  Whole(FAdd(y, vy))
    THEN MoveBy(rec, Val(vx), Val(vy))
    ELSE [ rec EXCEPT !.coords = Doubles(<< FAdd(@[1], vx), FAdd(@[2], vy),
                                            FAdd(@[3], vx), FAdd(@[4], vy) >>),
                      !.handle = Doubles(<< FAdd(@[1], vx), FAdd(@[2], vy) >>) ]

\* on_drag, lines 1246-1248: every instance of get_selected() moves by
\* (vx, vy), rectangle item and handle.
RECURSIVE MoveSelected(_, _, _, _)
MoveSelected(rs, ids, vx, vy) ==
    IF ids = << >>
    THEN rs
    ELSE MoveSelected([ rs EXCEPT ![objects[Head(ids)]] = CanvasMove(@, vx, vy) ],
                      Tail(ids), vx, vy)

\* b ^ e modulo m.
RECURSIVE PowMod(_, _, _)
PowMod(b, e, m) == IF e = 0 THEN 1 % m ELSE (b * PowMod(b, e - 1, m)) % m

\* floor(log2(w / h)).
RatioExp(w, h) ==
    IF w >= h THEN Log2(w \div h) ELSE 0 - (Log2((h - 1) \div w) + 1)

\* original_width / original_height, line 1286: the double nearest to w / h
\* is M * 2^-s with a significand M of 53 bits; RatioErr is w * 2^s - M * h, 0
\* where the quotient is exact.
RatioErr(w, h) ==
    LET s   == 52 - RatioExp(w, h)
        rem == ((w % h) * PowMod(2, s, h)) % h
    IN  IF 2 * rem < h THEN rem ELSE rem - h

\* The whole quotient q of a division or product by the double of w / h,
\* whose exact value lies off q on the side s by |q| * |t| / (w * 2^(52 - F))
\* for the error t and the exponent F of the ratio, is rounded to the next
\* double on that side where that distance exceeds half the gap (and on a
\* tie if up); k is the exponent of the comparison.
RoundedBy(q, w, s, up, t, k) ==
    IF \/ Abs(q) * t * (IF k >= 0 THEN 2 ^ k ELSE 1)
            > w * (IF k >= 0 THEN 1 ELSE 2 ^ (0 - k))
       \/ /\ Abs(q) * t * (IF k >= 0 THEN 2 ^ k ELSE 1)
              = w * (IF k >= 0 THEN 1 ELSE 2 ^ (0 - k))
          /\ up
    THEN [ num |-> q, den |-> 1, err |-> s * 2 * HalfGap(q, s) ]
    ELSE Flt(q)

RoundedQuotient(q, w, h, s, up) ==
    RoundedBy(q, w, s, up, Abs(RatioErr(w, h)),
              1 + RatioExp(w, h) - Log2(Abs(q))
                + (IF Sign(q) # s /\ Abs(q) = 2 ^ Log2(Abs(q)) THEN 1 ELSE 0))

\* The quotient q computed with a ratio of error t.
QuotientOff(q, w, h, t, side) ==
    IF t = 0 THEN Flt(q)
    ELSE RoundedQuotient(q, w, h, side * Sign(q) * Sign(t), side > 0 /\ t > 0)

\* dx / aspect_ratio, line 1289.
DivByRatio(dx, w, h) ==
    IF (dx * h) % w # 0 \/ dx = 0
    THEN [ num |-> dx * h, den |-> w, err |-> 0 ]
    ELSE QuotientOff((dx * h) \div w, w, h, RatioErr(w, h), 1)

\* dy * aspect_ratio, line 1291.
MulByRatio(dy, w, h) ==
    IF (dy * w) % h # 0 \/ dy * w = 0
    THEN [ num |-> dy * w, den |-> h, err |-> 0 ]
    ELSE QuotientOff((dy * w) \div h, w, h, RatioErr(w, h), 0 - 1)

\* What on_resize_drag computes for a rectangle of width 0 and positive
\* height while Shift is held and |dx| > |dy|: the division raises.
ZeroDivision == << "ZeroDivisionError" >>

\* The delta under Shift for a rectangle of width w and height h.
KeepRatio(dx, dy, w, h) ==
    IF h > 0
    THEN IF Abs(dx) > Abs(dy)
         THEN IF w = 0 THEN ZeroDivision
              ELSE << Flt(dx), DivByRatio(dx, w, h) >>
         ELSE << MulByRatio(dy, w, h), Flt(dy) >>
    ELSE << Flt(dx), Flt(0) >>

\* on_resize_drag with Shift tested before Alt.
AdjustedDelta_ShiftFirst(rec, dx, dy, k) ==
    IF k.shift
    THEN KeepRatio(dx, dy, rec.coords[3] - rec.coords[1],
                   rec.coords[4] - rec.coords[2])
    ELSE IF k.alt
    THEN IF Abs(dx) > Abs(dy) THEN << Flt(dx), Flt(0) >> ELSE << Flt(0), Flt(dy) >>
    ELSE << Flt(dx), Flt(dy) >>

\* on_resize_drag, lines 1277-1294: the delta applied to rec under the held
\* keys k, a pair of doubles. Alt keeps the component of larger magnitude (dy
\* on a tie); else Shift follows the aspect ratio width / height: new_dy =
\* dx / ratio or new_dx = dy * ratio, and the division raises for a width
\* of 0 and a positive height.
AdjustedDelta(rec, dx, dy, k) ==
    IF k.alt
    THEN IF Abs(dx) > Abs(dy) THEN << Flt(dx), Flt(0) >> ELSE << Flt(0), Flt(dy) >>
    ELSE IF k.shift
    THEN KeepRatio(dx, dy, rec.coords[3] - rec.coords[1],
                   rec.coords[4] - rec.coords[2])
    ELSE << Flt(dx), Flt(dy) >>

\* The event raises at rectangle rec.
Raises(rec, dx, dy, k) ==
    /\ ~ k.alt /\ k.shift /\ Abs(dx) > Abs(dy)
    /\ rec.coords[4] - rec.coords[2] > 0
    /\ rec.coords[3] - rec.coords[1] = 0

\* on_resize_drag, lines 1296-1304: the box at c grown by the delta d; with
\* Ctrl the top-left corner moves against the delta.
Grown(c, d, ctrl) ==
    IF ctrl
    THEN << FAdd(c[1], FNeg(d[1])), FAdd(c[2], FNeg(d[2])),
            FAdd(c[3], d[1]), FAdd(c[4], d[2]) >>
    ELSE << Flt(c[1]), Flt(c[2]), FAdd(c[3], d[1]), FAdd(c[4], d[2]) >>

\* on_resize_drag, lines 1273-1304: the box the event asks for, four doubles.
Resized(rec, dx, dy, k) ==
    Grown(rec.coords, AdjustedDelta(rec, dx, dy, k), k.ctrl)

\* canvas.coords(item, ...) with the doubles n, lines 1307-1308.
SetBox(rec, n) ==
    IF \A i \in 1 .. 4 : Whole(n[i])
    THEN [ rec EXCEPT !.coords = << Val(n[1]), Val(n[2]), Val(n[3]), Val(n[4]) >>,
                      !.handle = << Val(n[3]), Val(n[4]) >> ]
    ELSE [ rec EXCEPT !.coords = Doubles(n),
                      !.handle = Doubles(<< n[3], n[4] >>) ]

\* on_resize_drag, lines 1306-1308: the box n and the handle are set if n has
\* a positive width and height, else nothing changes; items that were
\* deleted take no coordinates.
SetIfValid(rec, n) ==
    IF rec.drawn /\ FLess(n[1], n[3]) /\ FLess(n[2], n[4])
    THEN SetBox(rec, n)
    ELSE rec

\* on_resize_drag, lines 1273-1308, for one rectangle under the held keys k,
\* where the event does not raise.
ResizeWith(rec, dx, dy, k) == SetIfValid(rec, Resized(rec, dx, dy, k))

\* on_resize_drag for one rectangle while no modifier key is held.
ResizeBy(rec, dx, dy) == ResizeWith(rec, dx, dy, NoKeys)

\* on_resize_drag, lines 1272-1308: the loop over get_selected(); it ends at
\* the first rectangle whose division raises, the ones before it resized.
RECURSIVE ResizeSelected(_, _, _, _)
ResizeSelected(rs, ids, dx, dy) ==
    IF ids = << >>
    THEN [ rects |-> rs, raised |-> "none" ]
    ELSE IF Raises(rs[objects[Head(ids)]], dx, dy, keyboard_state)
    THEN [ rects |-> rs, raised |-> "ZeroDivisionError" ]
    ELSE ResizeSelected([ rs EXCEPT ![objects[Head(ids)]]
                                       = ResizeWith(@, dx, dy, keyboard_state) ],
                        Tail(ids), dx, dy)

\* on_resize_drag, lines 1310-1311: the position is stored unless the event
\* raised.
Stored(res, r, e) ==
    IF res.raised = "none"
    THEN [ res.rects EXCEPT ![r].resize_start = e ]
    ELSE res.rects

\* Every rectangle has whole coordinates.
OnGrid(rs) == \A r \in 1 .. Len(rs) : HasWholeCoords(rs[r])

\* The items of the rectangle that holds the pointer are on the surface; Tk
\* runs no binding of an item that was deleted.
GrabbedDrawn == grabbed.rect # 0 /\ rects[grabbed.rect].drawn

\* The outcome st of on_drag_select takes effect.
canvas_drag(st) == SetWorld(st.world) /\ rubber' = st.rubber /\ view' = st.view

\* The distance d of on_drag moves the selection, the position e is stored
\* for r, then the canvas's on_drag_select runs at e.
body_drag(r, e, rs) ==
    /\ canvas_drag(OnDragSelect([ World EXCEPT !.rects = [ rs EXCEPT ![r].start = e ] ],
                                rubber, e))

\* on_drag for the rectangle r at e with the locked distance d.
selection_drag(r, e, d) ==
    /\ d # None
    /\ body_drag(r, e, MoveSelected(rects, selected_objects, d[1], d[2]))

\* B1-Motion to the window position e while the body of a rectangle holds
\* the pointer: DraggableRectangle.on_drag moves every selected rectangle by
\* the distance from the stored position, angle-locked while Shift is held,
\* and stores e; then the canvas's on_drag_select runs.
drag_body(e) ==
    /\ grabbed # None
    /\ grabbed.part = "body"
    /\ GrabbedDrawn
    /\ selection_drag(grabbed.rect, e,
                      AngleLock(e[1] - rects[grabbed.rect].start[1],
                                e[2] - rects[grabbed.rect].start[2],
                                keyboard_state.shift))
    /\ raised' = "none"
    /\ UNCHANGED << ntexts, next_item_id, history_states, history_index,
                    dragging, objects_changed, grabbed, keyboard_state, panning, zoom_level,
                    user_delete_callback, handle_layout >>

\* The outcome res of on_resize_drag for the handle of r takes effect, then
\* the canvas's on_drag_select runs at e.
handle_drag(r, e, res) ==
    /\ canvas_drag(OnDragSelect([ World EXCEPT !.rects = Stored(res, r, e) ],
                                rubber, e))
    /\ raised' = res.raised

\* B1-Motion to the window position e while a resize handle holds the
\* pointer: DraggableRectangle.on_resize_drag resizes every selected
\* rectangle and stores e, unless it raises; then the canvas's
\* on_drag_select runs.
drag_handle(e) ==
    /\ grabbed # None
    /\ grabbed.part = "handle"
    /\ GrabbedDrawn
    /\ handle_drag(grabbed.rect, e,
                   ResizeSelected(rects, selected_objects,
                                  e[1] - rects[grabbed.rect].resize_start[1],
                                  e[2] - rects[grabbed.rect].resize_start[2]))
    /\ UNCHANGED << ntexts, next_item_id, history_states, history_index,
                    dragging, objects_changed, grabbed, keyboard_state, panning, zoom_level,
                    user_delete_callback, handle_layout >>

\* B1-Motion to the window position e after a press on no item, or after the
\* items of the pressed rectangle were deleted: only the canvas's
\* on_drag_select runs.
drag_canvas(e) ==
    /\ grabbed # None
    /\ grabbed.part # "middle"
    /\ grabbed.part = "canvas" \/ ~ GrabbedDrawn
    /\ canvas_drag(OnDragSelect(World, rubber, e))
    /\ raised' = "none"
    /\ UNCHANGED << ntexts, next_item_id, history_states, history_index,
                    dragging, objects_changed, grabbed, keyboard_state, panning, zoom_level,
                    user_delete_callback, handle_layout >>

\* ButtonPress-2 at the window position e: InteractiveCanvas.on_middle_click
\* marks the view for scrolling.
on_middle_click(e) ==
    /\ grabbed = None
    /\ view' = ScanMark(view, e)
    /\ grabbed' = [ rect |-> 0, part |-> "middle" ]
    /\ raised' = "none"
    /\ fired' = NoCalls
    /\ UNCHANGED << rects, texts, ntexts, objects, selected_objects,
                    next_item_id, history_states, history_index, dragging,
                    objects_changed, rubber, keyboard_state, panning,
                    zoom_level, user_delete_callback, handle_layout >>

\* B2-Motion to the window position e: InteractiveCanvas.on_middle_drag
\* scrolls the view.
on_middle_drag(e) ==
    /\ grabbed # None
    /\ grabbed.part = "middle"
    /\ view' = ScanDragTo(view, e)
    /\ raised' = "none"
    /\ fired' = NoCalls
    /\ UNCHANGED << rects, texts, ntexts, objects, selected_objects,
                    next_item_id, history_states, history_index, dragging,
                    objects_changed, grabbed, rubber, keyboard_state, panning,
                    zoom_level, user_delete_callback, handle_layout >>

\* ButtonRelease-2: InteractiveCanvas.on_middle_release does nothing.
on_middle_release ==
    /\ grabbed # None
    /\ grabbed.part = "middle"
    /\ grabbed' = None
    /\ raised' = "none"
    /\ fired' = NoCalls
    /\ UNCHANGED << rects, texts, ntexts, objects, selected_objects,
                    next_item_id, history_states, history_index, dragging,
                    objects_changed, rubber, keyboard_state, panning,
                    zoom_level, user_delete_callback, view, handle_layout >>

\* InteractiveCanvas.on_space_press: the space bar goes down.
on_space_press ==
    /\ panning' = TRUE
    /\ raised' = "none"
    /\ fired' = NoCalls
    /\ UNCHANGED << rects, texts, ntexts, objects, selected_objects,
                    next_item_id, history_states, history_index, dragging,
                    objects_changed, grabbed, rubber, keyboard_state,
                    zoom_level, user_delete_callback,
                    view, handle_layout >>

\* InteractiveCanvas.on_space_release: the space bar goes up.
on_space_release ==
    /\ panning' = FALSE
    /\ raised' = "none"
    /\ fired' = NoCalls
    /\ UNCHANGED << rects, texts, ntexts, objects, selected_objects,
                    next_item_id, history_states, history_index, dragging,
                    objects_changed, grabbed, rubber, keyboard_state,
                    zoom_level, user_delete_callback,
                    view, handle_layout >>

\* The modifier keys the KeyboardStateManager follows.
Keys == { "shift", "alt", "ctrl" }

\* Shift_L, Alt_L or Control_L goes down: on_shift_press, on_alt_press,
\* on_ctrl_press. The bindings exist once a DraggableRectangle was constructed.
key_press(key) ==
    /\ rects # << >>
    /\ keyboard_state' = [ keyboard_state EXCEPT ![key] = TRUE ]
    /\ raised' = "none"
    /\ fired' = NoCalls
    /\ UNCHANGED << rects, texts, ntexts, objects, selected_objects,
                    next_item_id, history_states, history_index, dragging,
                    objects_changed, grabbed, rubber, panning, zoom_level,
                    user_delete_callback,
                    view, handle_layout >>

\* Shift_L, Alt_L or Control_L goes up: on_shift_release, on_alt_release,
\* on_ctrl_release.
key_release(key) ==
    /\ rects # << >>
    /\ keyboard_state' = [ keyboard_state EXCEPT ![key] = FALSE ]
    /\ raised' = "none"
    /\ fired' = NoCalls
    /\ UNCHANGED << rects, texts, ntexts, objects, selected_objects,
                    next_item_id, history_states, history_index, dragging,
                    objects_changed, grabbed, rubber, panning, zoom_level,
                    user_delete_callback,
                    view, handle_layout >>

\* ButtonRelease-1: InteractiveCanvas.on_drag_release clears dragging, deletes
\* the selection rectangle and forgets the start point; the rectangles bind
\* no handler to the release and _on_objects_changed is called by nothing.
on_drag_release ==
    /\ grabbed # None
    /\ grabbed.part # "middle"
    /\ dragging' = FALSE
    /\ rubber' = NoBand
    /\ grabbed' = None
    /\ raised' = "none"
    /\ fired' = NoCalls
    /\ UNCHANGED << rects, texts, ntexts, objects, selected_objects,
                    next_item_id, history_states, history_index,
                    objects_changed, keyboard_state, panning, zoom_level,
                    user_delete_callback,
                    view, handle_layout >>

(* ---------------------------- bookkeeping ----------------------------- *)
\* The trail once more than MaxTrail operations have been called.
Overflow == << "..." >>

\* The operation named op is appended to the trail.
Logged(op) ==
    trail' = IF trail # Overflow /\ Len(trail) < MaxTrail
             THEN Append(trail, op)
             ELSE Overflow

\* The counters of the cap and pointer specifications stay as they are.
Quiet == UNCHANGED << saves, evicted, undone, moved, laid >>

(* ---------------------- the general specification --------------------- *)
\* Every operation of the canvas API, explored while at most MaxRects
\* instances exist and the history holds at most MaxHist snapshots.
NewRectangle ==
    \E b \in Boxes :
        /\ Len(rects) < MaxRects
        /\ new_rectangle(b)
        /\ Logged("new_rectangle") /\ Quiet

RegisterRectangle ==
    \E r \in 1 .. Len(rects) :
        register_rectangle(r) /\ Logged("register_rectangle") /\ Quiet

CreateDraggableRectangle ==
    \E b \in Boxes :
        /\ Len(rects) < MaxRects
        /\ create_draggable_rectangle(b)
        /\ Len(history_states') <= MaxHist
        /\ Logged("create_draggable_rectangle") /\ Quiet

CopyDraggableRectangle ==
    \E r \in 1 .. Len(rects) :
        /\ Len(rects) < MaxRects
        /\ copy_draggable_rectangle(r)
        /\ Len(history_states') <= MaxHist
        /\ Logged("copy_draggable_rectangle") /\ Quiet

DeleteDraggableRectangle ==
    \E id \in ItemIds :
        delete_draggable_rectangle(id) /\ Logged("delete_draggable_rectangle") /\ Quiet

OnDelete ==
    /\ on_delete
    /\ Len(history_states') <= MaxHist
    /\ Logged("on_delete") /\ Quiet

SelectItem == \E id \in ItemIds : select_item(id) /\ Logged("select_item") /\ Quiet

Delete == \E r \in 1 .. Len(rects) : delete(r) /\ Logged("delete") /\ Quiet

SetIsSelected ==
    \E r \in 1 .. Len(rects), value \in BOOLEAN :
        set_is_selected(r, value) /\ Logged("set_is_selected") /\ Quiet

DeselectItem ==
    \E id \in ItemIds : deselect_item(id) /\ Logged("deselect_item") /\ Quiet

AttachText ==
    \E r \in 1 .. Len(rects) :
        /\ ntexts < MaxTexts
        /\ attach_text_to_rectangle(r)
        /\ Logged("attach_text_to_rectangle") /\ Quiet

SaveState ==
    /\ save_state
    /\ Len(history_states') <= MaxHist
    /\ Logged("save_state") /\ Quiet

Undo == undo /\ Logged("undo") /\ Quiet

Redo == redo /\ Logged("redo") /\ Quiet

Next ==
    \/ NewRectangle
    \/ RegisterRectangle
    \/ CreateDraggableRectangle
    \/ CopyDraggableRectangle
    \/ DeleteDraggableRectangle
    \/ OnDelete
    \/ SelectItem
    \/ DeselectItem
    \/ Delete
    \/ SetIsSelected
    \/ AttachText
    \/ SaveState
    \/ Undo
    \/ Redo

Spec == Init /\ [][Next]_vars

(* ---------------------- the history specification --------------------- *)
\* The operations that write or read the history (creation, the Delete key,
\* save_state, undo, redo), the ones that prepare their cases (direct
\* construction, registration, deletion, selection) and the ones that change
\* the rectangles in between (set_topleft_pos, set_size, zoom_in, zoom_out),
\* with at most HistRects instances and MaxHist snapshots. One of the latter
\* is among the first HistChanges operations of a behaviour and follows the
\* push of a snapshot, and rectangles are created, moved and resized while
\* every coordinate is a whole number.
HistNewRectangle ==
    \E b \in Boxes :
        /\ Len(rects) < HistRects
        /\ new_rectangle(b)
        /\ Logged("new_rectangle") /\ Quiet

HistCreateDraggableRectangle ==
    \E b \in Boxes :
        /\ Len(rects) < HistRects
        /\ OnGrid(rects)
        /\ create_draggable_rectangle(b)
        /\ Len(history_states') <= MaxHist
        /\ Logged("create_draggable_rectangle") /\ Quiet

\* Arguments of set_topleft_pos and set_size, the factor 4 of zoom_in and
\* zoom_out, and the centre of a view of 400 x 300 pixels.
HistPositions == { << 5, 5 >> }

HistSizes == { << 16, 8 >> }

HistFactors == { << 4, 1 >> }

HistCenters == { << 200, 150 >> }

\* A snapshot was pushed, and fewer than HistChanges operations were called
\* so far, none of them a move, a resize or a zoom.
Early ==
    /\ Len(history_states) >= 2
    /\ trail # Overflow
    /\ Len(trail) < HistChanges
    /\ \A i \in DOMAIN trail :
          trail[i] \notin { "set_topleft_pos", "set_size", "zoom_in", "zoom_out" }

HistSetTopLeftPos ==
    \E r \in 1 .. Len(rects), pos \in HistPositions :
        /\ Early
        /\ OnGrid(rects)
        /\ update(r, Done(set_topleft_pos(rects[r], pos)))
        /\ Logged("set_topleft_pos") /\ Quiet

HistSetSize ==
    \E r \in 1 .. Len(rects), size \in HistSizes :
        /\ Early
        /\ OnGrid(rects)
        /\ update(r, SetSize(rects[r], size))
        /\ Logged("set_size") /\ Quiet

HistZoomIn ==
    \E f \in HistFactors, c \in HistCenters :
        /\ Early
        /\ \E factor \in { Literal(f[1], f[2]) } : zoom_in(factor, c)
        /\ Logged("zoom_in") /\ Quiet

HistZoomOut ==
    \E f \in HistFactors, c \in HistCenters :
        /\ Early
        /\ \E factor \in { Literal(f[1], f[2]) } : zoom_out(factor, c)
        /\ Logged("zoom_out") /\ Quiet

NextHistory ==
    \/ HistNewRectangle
    \/ HistCreateDraggableRectangle
    \/ RegisterRectangle
    \/ DeleteDraggableRectangle
    \/ SelectItem
    \/ OnDelete
    \/ SaveState
    \/ Undo
    \/ Redo
    \/ HistSetTopLeftPos
    \/ HistSetSize
    \/ HistZoomIn
    \/ HistZoomOut

SpecHistory == Init /\ [][NextHistory]_vars

(* -------------------- the history-cap specification ------------------- *)
\* save_state, undo and redo on the canvas, with the calls of save_state
\* counted up to MaxSaves and every eviction counted.
CapSaveState ==
    /\ saves < MaxSaves
    /\ save_state
    /\ saves' = saves + 1
    /\ evicted' = evicted + SaveOutcome(rects, objects, selected_objects,
                                        next_item_id).evicts
    /\ UNCHANGED << undone, moved, trail, laid >>

CapUndo ==
    /\ undo
    /\ undone' = (undone \/ history_index > 0)
    /\ UNCHANGED << saves, evicted, moved, trail, laid >>

CapRedo ==
    /\ redo
    /\ UNCHANGED << saves, evicted, undone, moved, trail, laid >>

NextCap == CapSaveState \/ CapUndo \/ CapRedo

SpecCap == Init /\ [][NextCap]_vars

(* -------------------- the eviction specification ---------------------- *)
\* Construction, registration and deletion of at most EvictRects rectangles
\* together with save_state, undo and redo, the history growing up to the cap
\* of the program.
EvNewRectangle ==
    \E b \in Boxes :
        /\ Len(rects) < EvictRects
        /\ new_rectangle(b)
        /\ UNCHANGED gvars

EvRegisterRectangle ==
    \E r \in 1 .. Len(rects) : register_rectangle(r) /\ UNCHANGED gvars

EvDeleteDraggableRectangle ==
    \E id \in DOMAIN objects : delete_draggable_rectangle(id) /\ UNCHANGED gvars

EvSaveState == save_state /\ UNCHANGED gvars

EvUndo == undo /\ UNCHANGED gvars

EvRedo == redo /\ UNCHANGED gvars

NextEvict ==
    \/ EvNewRectangle
    \/ EvRegisterRectangle
    \/ EvDeleteDraggableRectangle
    \/ EvSaveState
    \/ EvUndo
    \/ EvRedo

SpecEvict == Init /\ [][NextEvict]_vars

(* --------------------- the pointer specification ---------------------- *)
\* Rectangles are constructed and registered, then pressed, dragged and
\* released. A motion event lies Step away from the previous event along both
\* axes, or at the same position.
Step == 10

Deltas == { << 0, 0 >>, << Step, Step >>, << 0 - Step, 0 - Step >> }

\* Every drawn rectangle and every stored pointer position lies within
\* 0 .. MaxCoord.
WithinCanvas(rs) ==
    \A r \in 1 .. Len(rs) :
        /\ rs[r].drawn => \A i \in 1 .. 4 : rs[r].coords[i] \in 0 .. MaxCoord
        /\ \A q \in { rs[r].start, rs[r].resize_start } \ { None } :
              q[1] \in 0 .. MaxCoord /\ q[2] \in 0 .. MaxCoord

\* Some rectangle item or handle is at another place after the step.
Displaced ==
    \E r \in 1 .. Len(rects) :
        rects'[r].coords # rects[r].coords \/ rects'[r].handle # rects[r].handle

PtrNewRectangle ==
    \E b \in Boxes :
        /\ grabbed = None
        /\ Len(rects) < PtrRects
        /\ new_rectangle(b)
        /\ UNCHANGED gvars

PtrRegisterRectangle ==
    \E r \in 1 .. Len(rects) :
        /\ grabbed = None
        /\ register_rectangle(r)
        /\ UNCHANGED gvars

PtrPressBody ==
    \E r \in 1 .. Len(rects) :
        /\ press_body(r)
        /\ moved' = FALSE
        /\ UNCHANGED << saves, evicted, undone, trail, laid >>

PtrPressHandle ==
    \E r \in 1 .. Len(rects) :
        /\ press_handle(r)
        /\ moved' = FALSE
        /\ UNCHANGED << saves, evicted, undone, trail, laid >>

PtrDragBody ==
    \E d \in Deltas :
        /\ grabbed # None /\ grabbed.part = "body"
        /\ drag_body(<< rects[grabbed.rect].start[1] + d[1],
                        rects[grabbed.rect].start[2] + d[2] >>)
        /\ WithinCanvas(rects')
        /\ moved' = (moved \/ Displaced)
        /\ UNCHANGED << saves, evicted, undone, trail, laid >>

PtrDragHandle ==
    \E d \in Deltas :
        /\ grabbed # None /\ grabbed.part = "handle"
        /\ drag_handle(<< rects[grabbed.rect].resize_start[1] + d[1],
                          rects[grabbed.rect].resize_start[2] + d[2] >>)
        /\ WithinCanvas(rects')
        /\ moved' = (moved \/ Displaced)
        /\ UNCHANGED << saves, evicted, undone, trail, laid >>

PtrRelease == on_drag_release /\ UNCHANGED gvars

\* The rectangle that holds the pointer is deleted by its own delete().
PtrDelete ==
    /\ grabbed # None
    /\ GrabbedDrawn
    /\ delete(grabbed.rect)
    /\ UNCHANGED gvars

\* A motion after the rectangle that held the pointer was deleted.
PtrDragGone ==
    \E d \in Deltas :
        /\ grabbed # None
        /\ ~ GrabbedDrawn
        /\ LET rec == rects[grabbed.rect]
               at  == IF grabbed.part = "body" THEN rec.start ELSE rec.resize_start
           IN  drag_canvas(<< at[1] + d[1], at[2] + d[2] >>)
        /\ UNCHANGED gvars

NextPointer ==
    \/ PtrNewRectangle
    \/ PtrRegisterRectangle
    \/ PtrPressBody
    \/ PtrPressHandle
    \/ PtrDragBody
    \/ PtrDragHandle
    \/ PtrRelease
    \/ PtrDelete
    \/ PtrDragGone

SpecPointer == Init /\ [][NextPointer]_vars

(* ----------------------- the click specification ---------------------- *)
\* Presses and releases of Button-1, with and without Shift and Ctrl, on
\* rectangles, on their handles and on empty places of the canvas, while the
\* space bar goes down and up.
ClickPoints == { << 20, 15 >>, << 55, 55 >> }

\* The top-left corner of rectangle r.
TopLeft(r) == << rects[r].coords[1], rects[r].coords[2] >>

ClkNewRectangle ==
    \E b \in Boxes :
        /\ grabbed = None
        /\ Len(rects) < ClickRects
        /\ new_rectangle(b)
        /\ UNCHANGED gvars

ClkRegisterRectangle ==
    \E r \in 1 .. Len(rects) :
        /\ grabbed = None
        /\ register_rectangle(r)
        /\ UNCHANGED gvars

ClkPressBody(r, m) == press_body_with(r, m) /\ UNCHANGED gvars

ClkPressHandle(r, m) == press_handle_with(r, m) /\ UNCHANGED gvars

ClkPressCanvas(p, m) == press_canvas(p, m) /\ UNCHANGED gvars

ClkRelease == on_drag_release /\ UNCHANGED gvars

ClkSpacePress == ~ panning /\ on_space_press /\ UNCHANGED gvars

ClkSpaceRelease == panning /\ on_space_release /\ UNCHANGED gvars

NextClick ==
    \/ ClkNewRectangle
    \/ ClkRegisterRectangle
    \/ \E r \in 1 .. Len(rects), m \in Modifiers : ClkPressBody(r, m)
    \/ \E r \in 1 .. Len(rects), m \in Modifiers : ClkPressHandle(r, m)
    \/ \E p \in ClickPoints, m \in Modifiers : ClkPressCanvas(p, m)
    \/ ClkRelease
    \/ ClkSpacePress
    \/ ClkSpaceRelease

SpecClick == Init /\ [][NextClick]_vars

(* -------------------- the rubber-band specification ------------------- *)
\* Presses on empty places of the canvas, motions between the points of
\* BandPoints and releases, between direct calls of set_is_selected on a
\* tracked rectangle and of update_selection_area on a region between two of
\* the points.
BandPoints == { << 0 - 5, 0 - 5 >>, << 45, 35 >>, << 35, 55 >>, << 45, 55 >> }

BandNewRectangle ==
    \E b \in Boxes :
        /\ grabbed = None
        /\ Len(rects) < BandRects
        /\ new_rectangle(b)
        /\ UNCHANGED gvars

BandRegisterRectangle ==
    \E r \in 1 .. Len(rects) :
        /\ grabbed = None
        /\ register_rectangle(r)
        /\ UNCHANGED gvars

BandPressCanvas ==
    \E p \in BandPoints : press_canvas(p, NoModifier) /\ UNCHANGED gvars

BandDragCanvas(p) == drag_canvas(p) /\ UNCHANGED gvars

BandRelease == on_drag_release /\ UNCHANGED gvars

BandSetIsSelected ==
    \E id \in DOMAIN objects, value \in BOOLEAN :
        /\ rects[objects[id]].drawn
        /\ set_is_selected(objects[id], value)
        /\ UNCHANGED gvars

BandUpdateSelectionArea ==
    \E p \in BandPoints, q \in BandPoints :
        /\ update_selection_area(<< p[1], p[2], q[1], q[2] >>)
        /\ UNCHANGED gvars

NextBand ==
    \/ BandNewRectangle
    \/ BandRegisterRectangle
    \/ BandPressCanvas
    \/ \E p \in BandPoints : BandDragCanvas(p)
    \/ BandRelease
    \/ BandSetIsSelected
    \/ BandUpdateSelectionArea

SpecBand == Init /\ [][NextBand]_vars

(* --------------------- the selection specification -------------------- *)
\* The operations of the canvas API that select, deselect and delete.
SelNewRectangle ==
    \E b \in Boxes :
        /\ Len(rects) < SelectRects
        /\ new_rectangle(b)
        /\ UNCHANGED gvars

SelRegisterRectangle ==
    \E r \in 1 .. Len(rects) : register_rectangle(r) /\ UNCHANGED gvars

SelSelectItem(id) == select_item(id) /\ UNCHANGED gvars

SelDeselectItem(id) == deselect_item(id) /\ UNCHANGED gvars

SelSelectAll == select_all /\ UNCHANGED gvars

SelDeselectAll == deselect_all /\ UNCHANGED gvars

SelDelete(id) == delete_draggable_rectangle(id) /\ UNCHANGED gvars

\* The instances that get direct calls of their own delete() and
\* set_is_selected() and that texts are attached to: the first one
\* constructed.
DirectCalls == { 1 }

\* The instance r is tracked and its items are on the surface.
TrackedAndDrawn(r) == rects[r].drawn /\ \E id \in DOMAIN objects : objects[id] = r

SelRectDelete(r) == TrackedAndDrawn(r) /\ delete(r) /\ UNCHANGED gvars

SelSetIsSelected(r, value) ==
    TrackedAndDrawn(r) /\ set_is_selected(r, value) /\ UNCHANGED gvars

SelOnDelete == on_delete /\ UNCHANGED gvars

SelAttachText ==
    \E r \in DirectCalls \cap (1 .. Len(rects)) :
        /\ ntexts < MaxTexts
        /\ attach_text_to_rectangle(r)
        /\ UNCHANGED gvars

NextSelect ==
    \/ SelNewRectangle
    \/ SelRegisterRectangle
    \/ \E id \in ItemIds : SelSelectItem(id)
    \/ \E id \in ItemIds : SelDeselectItem(id)
    \/ SelSelectAll
    \/ SelDeselectAll
    \/ \E id \in ItemIds : SelDelete(id)
    \/ \E r \in DirectCalls \cap (1 .. Len(rects)) : SelRectDelete(r)
    \/ \E r \in DirectCalls \cap (1 .. Len(rects)), value \in BOOLEAN :
            SelSetIsSelected(r, value)
    \/ SelOnDelete
    \/ SelAttachText

SpecSelect == Init /\ [][NextSelect]_vars

(* ------------------------ the drag specification ---------------------- *)
\* Body drags: rectangles are constructed and some of them registered, the
\* tracked ones may be selected, an outline is pressed, the pointer moves by
\* the steps of DragDeltas and the button is released, while every
\* coordinate and every stored pointer position stays within 0 .. DragCoord.
\* Shift goes down during a drag that did not start a rubber band, while
\* every rectangle is where it was constructed, and one step is made under it, the step along the x axis
\* only under Shift. A rectangle that the step under Shift left at
\* coordinates that are not whole takes no more events but the release. The
\* press is put on record with its window position and the instances before
\* it, and so is whether a motion since was made under Shift.
DragDeltas == Deltas \cup { << Step, 0 >> }

WithinDrag(rs) ==
    \A r \in 1 .. Len(rs) :
        /\ rs[r].drawn /\ HasWholeCoords(rs[r]) =>
              \A i \in 1 .. 4 : rs[r].coords[i] \in 0 .. DragCoord
        /\ rs[r].start # None =>
              /\ rs[r].start[1] \in 0 - Step .. DragCoord
              /\ rs[r].start[2] \in 0 - Step .. DragCoord

\* Every rectangle has the box of its construction.
Undragged == \A r \in 1 .. Len(rects) : \E b \in Boxes : rects[r].coords = b.box

DragNewRectangle ==
    \E b \in Boxes :
        /\ grabbed = None
        /\ OnGrid(rects)
        /\ Len(rects) < DragRects
        /\ new_rectangle(b)
        /\ UNCHANGED gvars

DragRegisterRectangle ==
    \E r \in 1 .. Len(rects) :
        /\ grabbed = None
        /\ OnGrid(rects)
        /\ register_rectangle(r)
        /\ UNCHANGED gvars

DragSelectAll == grabbed = None /\ OnGrid(rects) /\ select_all /\ UNCHANGED gvars

DragPressBody ==
    \E r \in 1 .. Len(rects) :
        /\ Undragged
        /\ press_body(r)
        /\ laid' = [ op |-> "press", at |-> rects'[r].start, locked |-> FALSE,
                     before |-> [ rects |-> rects ] ]
        /\ UNCHANGED << saves, evicted, undone, moved, trail >>

DragDragBody(d) ==
    /\ grabbed # None /\ grabbed.part = "body"
    /\ OnGrid(rects)
    /\ d \notin Deltas => keyboard_state.shift
    /\ keyboard_state.shift => (Undragged /\ ~ dragging)
    /\ drag_body(<< rects[grabbed.rect].start[1] + d[1],
                    rects[grabbed.rect].start[2] + d[2] >>)
    /\ WithinDrag(rects')
    /\ laid' = [ laid EXCEPT !.locked = @ \/ keyboard_state.shift ]
    /\ UNCHANGED << saves, evicted, undone, moved, trail >>

DragRelease ==
    /\ on_drag_release
    /\ laid' = NoLayout
    /\ UNCHANGED << saves, evicted, undone, moved, trail >>

DragShiftPress ==
    /\ grabbed # None
    /\ ~ dragging
    /\ Undragged
    /\ key_press("shift")
    /\ UNCHANGED gvars

DragShiftRelease == key_release("shift") /\ UNCHANGED gvars

NextDrag ==
    \/ DragNewRectangle
    \/ DragRegisterRectangle
    \/ DragSelectAll
    \/ DragPressBody
    \/ \E d \in DragDeltas : DragDragBody(d)
    \/ DragRelease
    \/ DragShiftPress
    \/ DragShiftRelease

SpecDrag == Init /\ [][NextDrag]_vars

(* ----------------------- the resize specification --------------------- *)
\* Resize drags under the modifier keys: rectangles of width : height 2 : 1,
\* 1 : 2 and 0 : 1 are constructed, each box once, some of them are
\* registered, the tracked ones are selected by select_all or by the press,
\* one handle is pressed and the pointer moves
\* from the handle by a step of ResizeDeltas while every rectangle still has
\* the box it was constructed with, so that a behaviour holds one press and
\* one resize. The modifier keys go down while the handle is held.
ResizeBoxes ==
    { [box |-> <<0, 0, 40, 20>>, outline |-> "black"],
      [box |-> <<10, 10, 30, 50>>, outline |-> "blue"],
      [box |-> <<60, 10, 60, 30>>, outline |-> "red"] }

ResizeDeltas ==
    { << 8, 2 >>, << 2, 8 >>, << 4, 4 >>, << 5, 1 >>, << 0 - 8, 0 - 2 >>,
      << 0 - 20, 0 - 4 >> }

\* Every rectangle has the box of its construction.
AsConstructed ==
    \A r \in 1 .. Len(rects) : \E b \in ResizeBoxes : rects[r].coords = b.box

ResNewRectangle ==
    \E b \in ResizeBoxes :
        /\ grabbed = None
        /\ AsConstructed
        /\ \A r \in 1 .. Len(rects) : rects[r].coords # b.box
        /\ Len(rects) < ResizeRects
        /\ new_rectangle(b)
        /\ UNCHANGED gvars

ResRegisterRectangle ==
    \E r \in 1 .. Len(rects) :
        /\ grabbed = None
        /\ AsConstructed
        /\ register_rectangle(r)
        /\ UNCHANGED gvars

ResSelectAll == grabbed = None /\ AsConstructed /\ select_all /\ UNCHANGED gvars

ResKeyPress ==
    \E key \in Keys : grabbed # None /\ key_press(key) /\ UNCHANGED gvars

ResKeyRelease == \E key \in Keys : key_release(key) /\ UNCHANGED gvars

ResPressHandle ==
    \E r \in 1 .. Len(rects) :
        /\ AsConstructed
        /\ \A q \in 1 .. Len(rects) : rects[q].resize_start = None
        /\ press_handle(r)
        /\ UNCHANGED gvars

ResDragHandle(d) ==
    /\ grabbed # None /\ grabbed.part = "handle"
    /\ AsConstructed
    /\ rects[grabbed.rect].resize_start = rects[grabbed.rect].handle
    /\ drag_handle(<< rects[grabbed.rect].resize_start[1] + d[1],
                      rects[grabbed.rect].resize_start[2] + d[2] >>)
    /\ UNCHANGED gvars

ResRelease == on_drag_release /\ UNCHANGED gvars

NextResize ==
    \/ ResNewRectangle
    \/ ResRegisterRectangle
    \/ ResSelectAll
    \/ ResKeyPress
    \/ ResKeyRelease
    \/ ResPressHandle
    \/ \E d \in ResizeDeltas : ResDragHandle(d)
    \/ ResRelease

SpecResize == Init /\ [][NextResize]_vars

(* ----------------------- the layout specification --------------------- *)
\* Rectangles of several widths and heights are constructed, from left to
\* right by the left edges of their boxes; the one constructed last may be
\* registered, the tracked ones may be selected, and align or distribute is
\* called once on a list of rectangles, tracked or not, in any order.
LayoutBoxes ==
    { [box |-> <<0, 0, 40, 30>>, outline |-> "black"],
      [box |-> <<10, 20, 50, 51>>, outline |-> "blue"],
      [box |-> <<25, 5, 65, 45>>, outline |-> "red"],
      [box |-> <<5, 10, 30, 28>>, outline |-> "green"] }

\* The relative_pos arguments: none, and a page origin.
Origins == { << 0, 0 >>, << 5, 7 >> }

\* The lists of up to three distinct instances a caller may pass.
Lists ==
    { l \in UNION { [ 1 .. k -> 1 .. Len(rects) ] : k \in 0 .. 3 } :
        \A i, j \in DOMAIN l : i # j => l[i] # l[j] }

\* No layout operation has been called yet, so that every rectangle has the
\* box of its construction.
AsLaidOut == laid = NoLayout

\* Everything of the bookkeeping but the layout record stays as it is.
Unlaid == UNCHANGED << saves, evicted, undone, moved, trail >>

\* The call of a layout operation is put on record, with the state before it.
Laid(op, list, mode, origin) ==
    laid' = [ op |-> op, list |-> list, mode |-> mode, origin |-> origin,
              before |-> [ rects |-> rects, objects |-> objects,
                           selected_objects |-> selected_objects,
                           next_item_id |-> next_item_id,
                           history_states |-> history_states,
                           history_index |-> history_index ] ]

LayNewRectangle ==
    \E b \in LayoutBoxes :
        /\ AsLaidOut
        /\ Len(rects) < LayoutRects
        /\ rects # << >> => rects[Len(rects)].coords[1] <= b.box[1]
        /\ new_rectangle(b)
        /\ UNCHANGED gvars

LayRegisterRectangle ==
    /\ AsLaidOut
    /\ rects # << >>
    /\ register_rectangle(Len(rects))
    /\ UNCHANGED gvars

LaySelectAll == AsLaidOut /\ select_all /\ UNCHANGED gvars

LayAlign(list, mode, origin) ==
    align(list, mode, origin) /\ Laid("align", list, mode, origin) /\ Unlaid

LayDistribute(list, mode, origin) ==
    /\ distribute(list, mode, origin)
    /\ Laid("distribute", list, mode, origin) /\ Unlaid

NextLayout ==
    \/ LayNewRectangle
    \/ LayRegisterRectangle
    \/ LaySelectAll
    \/ /\ AsLaidOut
       /\ \E l \in Lists, m \in ALIGN_MODES \cup { "diagonal" }, o \in Origins :
             LayAlign(l, m, o)
    \/ /\ AsLaidOut
       /\ \E l \in Lists, m \in DISTRIBUTE_MODES \cup { "diagonal" }, o \in Origins :
             LayDistribute(l, m, o)

SpecLayout == Init /\ [][NextLayout]_vars

(* ----------------- the rectangle-operations specification ------------- *)
\* Rectangles are constructed directly, and one method or operator of
\* DraggableRectangle is applied to a rectangle that is as constructed.
OpsBoxes ==
    { [box |-> <<0, 0, 40, 24>>, outline |-> "black"],
      [box |-> <<-32, -16, -8, -4>>, outline |-> "blue"],
      [box |-> <<20, 8, 60, 40>>, outline |-> "red"] }

\* Arguments of the methods: indices, coordinate values, offsets, scale
\* factors (<< num, den >> for the literal num / den), integer divisors, sizes, corner positions,
\* angles and anchors, valid and invalid ones.
Indices == -5 .. 4

Values == { -40, 0, 24, 48 }

Offsets == { << 8, -4 >>, << 0, 0 >> }

Factors == { << 0, 1 >>, << 1, 1 >>, << 2, 1 >>, << 1, 2 >>, << 6, 5 >>, << -1, 1 >> }

Divisors == { -1, 0, 1, 2, 3 }

Sizes == { << 16, 8 >>, << 0, 8 >>, << -8, -8 >> }

Corners == { << 48, 32 >>, << -40, -24 >> }

Angles == ANGLES \cup { 45 }

Anchors == ANCHORS \cup { "middle" }

\* Every rectangle is as one of the boxes was constructed, and no call is on
\* record.
Built ==
    /\ laid = NoLayout
    /\ \A r \in 1 .. Len(rects) :
          \E b \in OpsBoxes :
              rects[r].coords = b.box /\ rects[r].handle = << b.box[3], b.box[4] >>

\* A rectangle that is as constructed, for a method call.
Target(r) == r \in 1 .. Len(rects) /\ Built

\* The same, with room for the instance an operator returns.
Operand(r) == Target(r) /\ Len(rects) < OpsRects

OpsNewRectangle ==
    \E b \in OpsBoxes :
        /\ Built
        /\ Len(rects) < OpsRects
        /\ new_rectangle(b)
        /\ UNCHANGED gvars

\* rect[index] = value, put on record with the instances before it.
OpsSetItem(r, index, value) ==
    /\ Target(r)
    /\ update(r, SetItem(rects[r], index, value))
    /\ laid' = [ op |-> "setitem", rect |-> r, index |-> index, value |-> value,
                 before |-> [ rects |-> rects ] ]
    /\ Unlaid

OpsIAdd(r, d) == Target(r) /\ update(r, IAdd(rects[r], d)) /\ UNCHANGED gvars

OpsISub(r, d) == Target(r) /\ update(r, ISub(rects[r], d)) /\ UNCHANGED gvars

\* A scaling or a division of rectangle r by num / den is put on record.
Scaled(op, r, num, den) ==
    /\ laid' = [ op |-> op, rect |-> r, num |-> num, den |-> den,
                 before |-> [ rects |-> rects ] ]
    /\ Unlaid

OpsIMul(r, f) ==
    /\ Target(r)
    /\ update(r, IMul(rects[r], Literal(f[1], f[2])))
    /\ Scaled("imul", r, f[1], f[2])

OpsITrueDiv(r, k) ==
    /\ Target(r)
    /\ update(r, ITrueDiv(rects[r], k))
    /\ Scaled("itruediv", r, k, 1)

OpsSetTopLeftPos(r, pos) ==
    Target(r) /\ update(r, Done(set_topleft_pos(rects[r], pos))) /\ UNCHANGED gvars

OpsSetBottomRightPos(r, pos) ==
    Target(r) /\ update(r, SetBottomRightPos(rects[r], pos)) /\ UNCHANGED gvars

OpsSetSize(r, size) ==
    Target(r) /\ update(r, SetSize(rects[r], size)) /\ UNCHANGED gvars

OpsSafeRotate(r, angle, anchor) ==
    Target(r) /\ update(r, SafeRotate(rects[r], angle, anchor)) /\ UNCHANGED gvars

OpsAdd(r, d) == Operand(r) /\ derive(r, Add(rects[r], d)) /\ UNCHANGED gvars

OpsSub(r, d) == Operand(r) /\ derive(r, Sub(rects[r], d)) /\ UNCHANGED gvars

OpsRSub(r, d) == Operand(r) /\ derive(r, RSub(rects[r], d)) /\ UNCHANGED gvars

OpsMul(r, f) ==
    /\ Operand(r)
    /\ derive(r, Mul(rects[r], Literal(f[1], f[2])))
    /\ Scaled("mul", r, f[1], f[2])

OpsTrueDiv(r, k) ==
    /\ Operand(r)
    /\ derive(r, TrueDiv(rects[r], k))
    /\ Scaled("truediv", r, k, 1)

OpsFloorDiv(r, k) ==
    Operand(r) /\ derive(r, FloorDiv(rects[r], k)) /\ Scaled("floordiv", r, k, 1)

OpsNeg(r) == Operand(r) /\ derive(r, Neg(rects[r])) /\ UNCHANGED gvars

OpsAbs(r) == Operand(r) /\ derive(r, AbsOf(rects[r])) /\ UNCHANGED gvars

OpsAnd(r, q) ==
    Operand(r) /\ Target(q) /\ derive(r, And(rects[r], rects[q])) /\ UNCHANGED gvars

OpsOr(r, q) ==
    Operand(r) /\ Target(q) /\ derive(r, Or(rects[r], rects[q])) /\ UNCHANGED gvars

NextOps ==
    \/ OpsNewRectangle
    \/ \E r \in 1 .. Len(rects), i \in Indices, v \in Values :
          OpsSetItem(r, i, v)
    \/ \E r \in 1 .. Len(rects), d \in Offsets :
          OpsIAdd(r, d)
    \/ \E r \in 1 .. Len(rects), d \in Offsets :
          OpsISub(r, d)
    \/ \E r \in 1 .. Len(rects), f \in Factors :
          OpsIMul(r, f)
    \/ \E r \in 1 .. Len(rects), k \in Divisors :
          OpsITrueDiv(r, k)
    \/ \E r \in 1 .. Len(rects), pos \in Corners :
          OpsSetTopLeftPos(r, pos)
    \/ \E r \in 1 .. Len(rects), pos \in Corners :
          OpsSetBottomRightPos(r, pos)
    \/ \E r \in 1 .. Len(rects), size \in Sizes :
          OpsSetSize(r, size)
    \/ \E r \in 1 .. Len(rects), angle \in Angles, anchor \in Anchors :
          OpsSafeRotate(r, angle, anchor)
    \/ \E r \in 1 .. Len(rects), d \in Offsets :
          OpsAdd(r, d)
    \/ \E r \in 1 .. Len(rects), d \in Offsets :
          OpsSub(r, d)
    \/ \E r \in 1 .. Len(rects), d \in Offsets :
          OpsRSub(r, d)
    \/ \E r \in 1 .. Len(rects), f \in Factors :
          OpsMul(r, f)
    \/ \E r \in 1 .. Len(rects), k \in Divisors :
          OpsTrueDiv(r, k)
    \/ \E r \in 1 .. Len(rects), k \in Divisors :
          OpsFloorDiv(r, k)
    \/ \E r \in 1 .. Len(rects) : OpsNeg(r)
    \/ \E r \in 1 .. Len(rects) : OpsAbs(r)
    \/ \E r \in 1 .. Len(rects), q \in 1 .. Len(rects) :
          OpsAnd(r, q)
    \/ \E r \in 1 .. Len(rects), q \in 1 .. Len(rects) :
          OpsOr(r, q)

SpecOps == Init /\ [][NextOps]_vars

(* --------------------- the intersection specification ----------------- *)
\* Rectangles that overlap, that touch along an edge or at a corner, and that
\* lie apart are constructed, and a & b is evaluated once.
MeetBoxes ==
    { [box |-> <<0, 0, 100, 100>>, outline |-> "black"],
      [box |-> <<50, 50, 150, 150>>, outline |-> "blue"],
      [box |-> <<100, 20, 130, 60>>, outline |-> "red"],
      [box |-> <<100, 100, 120, 120>>, outline |-> "green"],
      [box |-> <<160, 0, 180, 10>>, outline |-> "grey"] }

MeetNewRectangle ==
    \E b \in MeetBoxes :
        /\ laid = NoLayout
        /\ Len(rects) < MeetRects
        /\ new_rectangle(b)
        /\ UNCHANGED gvars

\* a & b for instances r and q, put on record with the instances before it.
MeetAnd(r, q) ==
    /\ laid = NoLayout
    /\ Len(rects) < MeetRects
    /\ derive(r, And(rects[r], rects[q]))
    /\ laid' = [ op |-> "and", rect |-> r, other |-> q,
                 before |-> [ rects |-> rects ] ]
    /\ Unlaid

NextMeet ==
    \/ MeetNewRectangle
    \/ \E r \in 1 .. Len(rects), q \in 1 .. Len(rects) : MeetAnd(r, q)

SpecMeet == Init /\ [][NextMeet]_vars

(* ----------------------- the Delete-key specification ------------------ *)
\* Canvases constructed with and without a delete_callback, with at most
\* DeleteRects rectangles constructed, registered and selected, and one press
\* of the Delete key, put on record with the state before it.
DeleteCallbacks == { None, << "delete_callback" >> }

InitDelete == \E cb \in DeleteCallbacks : Constructed(cb)

DelNewRectangle ==
    \E b \in Boxes :
        /\ laid = NoLayout
        /\ Len(rects) < DeleteRects
        /\ new_rectangle(b)
        /\ UNCHANGED gvars

DelRegisterRectangle ==
    /\ laid = NoLayout
    /\ \E r \in 1 .. Len(rects) : register_rectangle(r) /\ UNCHANGED gvars

DelSelectItem ==
    /\ laid = NoLayout
    /\ \E id \in DOMAIN objects : select_item(id) /\ UNCHANGED gvars

DelDeselectItem ==
    /\ laid = NoLayout
    /\ \E id \in DOMAIN objects : deselect_item(id) /\ UNCHANGED gvars

DelDeleteKey ==
    /\ laid = NoLayout
    /\ on_delete_key
    /\ laid' = [ op |-> "delete_key",
                 before |-> [ rects |-> rects, objects |-> objects,
                              selected |-> selected_objects,
                              history_states |-> history_states,
                              history_index |-> history_index ] ]
    /\ Unlaid

NextDelete ==
    \/ DelNewRectangle
    \/ DelRegisterRectangle
    \/ DelSelectItem
    \/ DelDeselectItem
    \/ DelDeleteKey

SpecDelete == InitDelete /\ [][NextDelete]_vars

(* -------------------------- the zoom specification -------------------- *)
\* At most MaxTrail calls of zoom_in and zoom_out with factors of at least 1
\* about a view centre, between creations of rectangles at the zoom level 1,
\* undo and redo. Every call is put on record with the zoom level and the
\* instances before it.
ZoomBoxes ==
    { [box |-> <<100, 50, 300, 250>>, outline |-> "black"],
      [box |-> <<200, 150, 400, 350>>, outline |-> "blue"] }

\* The literals 1, 1.2 (the default of zoom_in and zoom_out), 3 and 10, as
\* << num, den >>.
ZoomFactors == { <<1, 1>>, <<6, 5>>, <<3, 1>>, <<10, 1>> }

\* The centre of the view: of a window of 400 x 300 pixels that was not
\* scrolled.
ViewCenters == { <<200, 150>> }

Zoomed(op, f) ==
    /\ laid' = [ op |-> op, factor |-> f,
                 before |-> [ zoom_level |-> zoom_level, rects |-> rects ] ]
    /\ UNCHANGED << saves, evicted, undone, moved >>

ZoomCreateDraggableRectangle ==
    \E b \in ZoomBoxes :
        /\ Len(rects) < ZoomRects
        /\ zoom_level = Double(1)
        /\ create_draggable_rectangle(b)
        /\ Len(history_states') <= MaxHist
        /\ laid' = NoLayout
        /\ Unlaid

ZoomIn(f, c) ==
    /\ Len(trail) < MaxTrail
    /\ \E factor \in { Literal(f[1], f[2]) } : zoom_in(factor, c)
    /\ trail' = Append(trail, "zoom_in")
    /\ Zoomed("zoom_in", f)

ZoomOut(f, c) ==
    /\ Len(trail) < MaxTrail
    /\ \E factor \in { Literal(f[1], f[2]) } : zoom_out(factor, c)
    /\ trail' = Append(trail, "zoom_out")
    /\ Zoomed("zoom_out", f)

ZoomUndo == undo /\ Zoomed("undo", << 1, 1 >>) /\ UNCHANGED trail

ZoomRedo == redo /\ Zoomed("redo", << 1, 1 >>) /\ UNCHANGED trail

NextZoom ==
    \/ ZoomCreateDraggableRectangle
    \/ \E f \in ZoomFactors, c \in ViewCenters : ZoomIn(f, c)
    \/ \E f \in ZoomFactors, c \in ViewCenters : ZoomOut(f, c)
    \/ ZoomUndo
    \/ ZoomRedo

SpecZoom == Init /\ [][NextZoom]_vars

(* ------------------------- the lookup specification ------------------- *)
\* At most LookupRects rectangles are constructed, registered, moved with
\* set_topleft_pos and deleted.
Positions == { << 0, 0 >>, << 1, 1 >>, << 5, 5 >> }

LookNewRectangle ==
    \E b \in Boxes :
        /\ Len(rects) < LookupRects
        /\ new_rectangle(b)
        /\ UNCHANGED gvars

LookRegisterRectangle ==
    \E r \in 1 .. Len(rects) : register_rectangle(r) /\ UNCHANGED gvars

LookSetTopLeftPos ==
    \E r \in 1 .. Len(rects), pos \in Positions :
        /\ update(r, Done(set_topleft_pos(rects[r], pos)))
        /\ UNCHANGED gvars

LookDelete ==
    \E id \in DOMAIN objects : delete_draggable_rectangle(id) /\ UNCHANGED gvars

NextLookup ==
    \/ LookNewRectangle
    \/ LookRegisterRectangle
    \/ LookSetTopLeftPos
    \/ LookDelete

SpecLookup == Init /\ [][NextLookup]_vars

(* ------------------------ the panning specification ------------------- *)
\* Presses on empty places and on rectangle outlines, motions between the
\* points of PanPoints and releases, with the space bar going down and up
\* in between and the middle button scrolling the view, over at most
\* PanRects rectangles. A rectangle is dragged by its body from the box it
\* was constructed with, and the view is scrolled to the right and down by
\* at most ViewRange. Until the release, a press is on record with whether
\* a tracked rectangle lay under the pointer.
ViewRange == 10

\* The canvas point at the window's top-left corner, after a scroll.
WithinView(v) ==
    v.origin[1] \in 0 - ViewRange .. 0 /\ v.origin[2] \in 0 - ViewRange .. 0

\* The window positions of the pointer's events.
PanPoints == { << 0 - 5, 0 - 5 >>, << 45, 35 >>, << 55, 35 >> }

PanNewRectangle ==
    \E b \in Boxes :
        /\ grabbed = None
        /\ Len(rects) < PanRects
        /\ new_rectangle(b)
        /\ UNCHANGED gvars

PanRegisterRectangle ==
    \E r \in 1 .. Len(rects) :
        /\ grabbed = None
        /\ register_rectangle(r)
        /\ UNCHANGED gvars

\* The press at the canvas point p is put on record.
PanPressed(p) ==
    /\ laid' = [ op |-> "press", empty |-> (ClickedIds(p) = << >>) ]
    /\ Unlaid

PanPressCanvas ==
    \E p \in PanPoints :
        press_canvas(p, NoModifier) /\ PanPressed(CanvasPoint(view, p))

PanPressBody ==
    \E r \in 1 .. Len(rects) :
        /\ press_body(r)
        /\ PanPressed(<< rects[r].coords[1], rects[r].coords[2] >>)

PanDragCanvas ==
    \E p \in PanPoints : drag_canvas(p) /\ WithinView(view') /\ UNCHANGED gvars

PanDragBody ==
    \E p \in PanPoints :
        /\ \A r \in 1 .. Len(rects) :
              rects[r].drawn => rects[r].coords \in { b.box : b \in Boxes }
        /\ drag_body(p)
        /\ WithinView(view')
        /\ \A r \in 1 .. Len(rects) :
              \A i \in 1 .. 4 : rects'[r].coords[i] \in 0 .. DragCoord
        /\ UNCHANGED gvars

PanMiddleClick == on_middle_click(<< 45, 35 >>) /\ UNCHANGED gvars

PanMiddleDrag ==
    \E p \in PanPoints :
        on_middle_drag(p) /\ WithinView(view') /\ UNCHANGED gvars

PanMiddleRelease == on_middle_release /\ UNCHANGED gvars

PanRelease == on_drag_release /\ laid' = NoLayout /\ Unlaid

PanSpacePress == ~ panning /\ on_space_press /\ UNCHANGED gvars

PanSpaceRelease == panning /\ on_space_release /\ UNCHANGED gvars

NextPan ==
    \/ PanNewRectangle
    \/ PanRegisterRectangle
    \/ PanPressCanvas
    \/ PanPressBody
    \/ PanDragCanvas
    \/ PanDragBody
    \/ PanRelease
    \/ PanSpacePress
    \/ PanSpaceRelease
    \/ PanMiddleClick
    \/ PanMiddleDrag
    \/ PanMiddleRelease

SpecPan == Init /\ [][NextPan]_vars

(* ------------------------------ claims -------------------------------- *)
\* The last operation named on the trail.
LastOp == IF trail = << >> THEN "" ELSE trail[Len(trail)]

\* The canvas holds what the snapshot under the cursor records: the same ids,
\* each with the recorded coordinates and style, the same selected ids and the
\* same id counter.
CanvasMatchesCursor ==
    LET s == history_states[history_index + 1]
    IN  /\ DOMAIN objects = DOMAIN s.objects
        /\ \A id \in DOMAIN objects :
              /\ rects[objects[id]].drawn
              /\ rects[objects[id]].coords = s.objects[id].coords
              /\ rects[objects[id]].dpi = s.objects[id].dpi
              /\ rects[objects[id]].original_outline = s.objects[id].outline
        /\ SeqSet(selected_objects) = SeqSet(s.selected)
        /\ next_item_id = s.next_item_id

\* C1: undo() with the cursor above 0 moves the cursor back by exactly one and
\* redo() with a later snapshot available moves it forward by exactly one;
\* afterwards the id-to-rectangle map, the selected ids and next_item_id are
\* those of the snapshot now under the cursor.
C1_UndoRedoRestoreCursorSnapshot ==
    [][ /\ (Undo /\ history_index > 0) =>
              (history_index' = history_index - 1 /\ CanvasMatchesCursor')
        /\ (Redo /\ history_index < Len(history_states) - 1) =>
              (history_index' = history_index + 1 /\ CanvasMatchesCursor')
      ]_vars

\* C1 witness: create, register the rectangle, undo: the cursor is back at 0,
\* the registered rectangle is gone and the id counter is 0 again.
C1_Witness ==
    /\ trail = << "create_draggable_rectangle", "register_rectangle", "undo" >>
    /\ history_index = 0
    /\ Len(history_states) = 2
    /\ ~ rects[1].drawn
    /\ next_item_id = 0

\* C2: a save_state() that returns while snapshots lie beyond the cursor (the
\* state undo() leaves) discards them before appending: the history becomes
\* the snapshots up to the cursor plus the new one, the cursor is on the new
\* snapshot, and a redo() called next would change neither cursor nor canvas.
C2_SaveAfterUndoDropsRedo ==
    [][ (SaveState /\ raised' = "none") =>
          /\ (history_index < Len(history_states) - 1) =>
                /\ Len(history_states') = history_index + 2
                /\ SubSeq(history_states', 1, history_index + 1)
                     = SubSeq(history_states, 1, history_index + 1)
                /\ history_states'[history_index + 2]
                     = Snapshot(rects, objects, selected_objects, next_item_id)
          /\ history_index' = Len(history_states') - 1
          /\ (RedoResult = Canvas)'
      ]_vars

\* C2 witness: create, undo, save_state: the snapshot of the creation is
\* replaced by the new one and the cursor is on it.
C2_Witness ==
    /\ trail = << "create_draggable_rectangle", "undo", "save_state" >>
    /\ raised = "none"
    /\ Len(history_states) = 2
    /\ history_index = 1

\* C9: undo() and redo() leave history_states as it is, in length and in
\* content; of the history only the cursor changes.
C9_RestoreLeavesHistory ==
    [][ (Undo \/ Redo) => history_states' = history_states ]_vars

\* C9 witness: a snapshot with id counter 1 was pushed and undo() has moved the
\* cursor back to 0 (the counter is 0 again); both snapshots are still there.
C9_Witness ==
    /\ history_index = 0
    /\ Len(history_states) = 2
    /\ history_states[2].next_item_id = 1
    /\ next_item_id = 0

\* The number of rectangles the canvas tracks.
ObjectCount == Cardinality(DOMAIN objects)

\* C5: on a fresh canvas, create_draggable_rectangle followed by undo() leaves
\* the object count at 0, and a following redo() brings it back to 1.
C5_CreateUndoRedoObjectCount ==
    /\ (trail = << "create_draggable_rectangle", "undo" >>) => ObjectCount = 0
    /\ (trail = << "create_draggable_rectangle", "undo", "redo" >>) =>
          ObjectCount = 1

\* C6: every DraggableRectangle constructed, through create_draggable_rectangle
\* or directly, is stored in canvas.objects under the previous next_item_id,
\* which grows by one, so canvas.objects grows by one per creation.
C6_CreatedRectangleIsTracked ==
    [][ (CreateDraggableRectangle \/ NewRectangle) =>
          /\ next_item_id' = next_item_id + 1
          /\ next_item_id \in DOMAIN objects'
          /\ objects'[next_item_id] = Len(rects')
          /\ ObjectCount' = ObjectCount + 1
      ]_vars

\* A call of delete_draggable_rectangle with the id of a tracked rectangle.
DeleteTracked ==
    \E id \in DOMAIN objects :
        delete_draggable_rectangle(id) /\ Logged("delete_draggable_rectangle") /\ Quiet

\* C7: create_draggable_rectangle, copy_draggable_rectangle, the deletion of a
\* tracked rectangle and the Delete-key handler with a selection each push one
\* snapshot, and that snapshot records the canvas as the mutation left it.
C7_StructuralMutationPushesSnapshot ==
    [][ ( \/ CreateDraggableRectangle
          \/ CopyDraggableRectangle
          \/ DeleteTracked
          \/ (OnDelete /\ selected_objects # << >>) ) =>
          /\ history_index' = history_index + 1
          /\ Len(history_states') = history_index' + 1
          /\ history_states'[history_index' + 1]
               = Snapshot(rects', objects', selected_objects', next_item_id')
      ]_vars

\* C10: after an undo() or redo() that moved the cursor, no rectangle, handle
\* or attached text of the generation before the restore is still drawn; the
\* rectangles on the surface are exactly the ones rebuilt from the snapshot.
C10_RestoreLeavesNoOldItems ==
    [][ ((Undo \/ Redo) /\ history_index' # history_index) =>
          /\ \A r \in 1 .. Len(rects) : ~ rects'[r].drawn
          /\ texts' \cap texts = {}
          /\ \A r \in 1 .. Len(rects') :
                rects'[r].drawn <=> (\E id \in DOMAIN objects' : objects'[id] = r)
      ]_vars

\* C3: the history never holds more than max_history snapshots; after 60
\* calls of save_state with no undo() in between it holds exactly max_history
\* of them, and the oldest one left was saved by the 10th call or a later one,
\* so undo() cannot reach a state before the 10th saved operation.
C3_HistoryCapped ==
    /\ Len(history_states) <= max_history
    /\ history_index \in 0 .. Len(history_states) - 1
    /\ (saves = 60 /\ ~ undone) =>
          /\ Len(history_states) = max_history
          /\ evicted >= 10

\* C3 witness: 60 saves done, an eviction has happened, the history is full
\* and the cursor is on its last entry.
C3_Witness ==
    /\ saves = 60
    /\ ~ undone
    /\ evicted = 11
    /\ Len(history_states) = max_history
    /\ history_index = max_history - 1

\* C4: in every reachable state the snapshot at history index 0 is the
\* empty-canvas state: no objects, next_item_id 0, nothing selected.
C4_IndexZeroIsEmptyCanvas == history_states[1] = InitialState

\* C8: in a press, motion, release sequence on a rectangle's body or resize
\* handle no motion event pushes a snapshot; the release pushes exactly one
\* snapshot, of the canvas as it then is, if a rectangle moved or changed size
\* since the press, and pushes none if nothing changed.
C8_ReleaseSnapshotsOnceIfMoved ==
    [][ /\ (PtrDragBody \/ PtrDragHandle) =>
              (history_states' = history_states /\ history_index' = history_index)
        /\ (PtrRelease /\ ~ moved) =>
              (history_states' = history_states /\ history_index' = history_index)
        /\ (PtrRelease /\ moved) =>
              /\ history_index' = history_index + 1
              /\ Len(history_states') = history_index' + 1
              /\ history_states'[history_index' + 1]
                   = Snapshot(rects', objects', selected_objects', next_item_id')
      ]_vars

(* ------------------------ claims on selection ------------------------- *)
\* Rectangle r is tracked and is the rectangle on_click finds first at p.
FirstClicked(r, p) ==
    /\ ClickedIds(p) # << >>
    /\ objects[Head(ClickedIds(p))] = r

\* The tracking id of rectangle r.
IdOf(r) == CHOOSE id \in DOMAIN objects : objects[id] = r

\* The selection is exactly rectangle r: its id is the only selected one and
\* its flag is the only one set.
OnlySelected(rs, objs, sel, r) ==
    /\ \E id \in DOMAIN objs : objs[id] = r /\ sel = << id >>
    /\ \A q \in 1 .. Len(rs) : rs[q].is_selected <=> q = r

\* C11: a click with no modifier key on a rectangle that is not selected
\* leaves the selection exactly that rectangle.
C11_PlainClickSelectsOnlyClicked ==
    [][ \A r \in 1 .. Len(rects) :
            (ClkPressBody(r, NoModifier) /\ ~ rects[r].is_selected)
                => OnlySelected(rects', objects', selected_objects', r) ]_vars

\* C12: a Shift-click on a tracked rectangle toggles its membership of the
\* selection, selected to unselected and unselected to selected, and leaves
\* the membership of every other rectangle as it was.
C12_ShiftClickToggles ==
    [][ \A r \in 1 .. Len(rects) :
            (ClkPressBody(r, [ shift |-> TRUE, ctrl |-> FALSE ])
               /\ FirstClicked(r, TopLeft(r)))
                => /\ rects'[r].is_selected = ~ rects[r].is_selected
                   /\ SeqHas(selected_objects', IdOf(r))
                        = ~ SeqHas(selected_objects, IdOf(r))
                   /\ \A id \in DOMAIN objects \ { IdOf(r) } :
                        SeqHas(selected_objects', id) = SeqHas(selected_objects, id)
      ]_vars

\* C13: a Ctrl-click on a tracked rectangle leaves the selection exactly that
\* rectangle, whatever was selected before and whatever other modifier is
\* held.
C13_CtrlClickSelectsOnlyClicked ==
    [][ \A r \in 1 .. Len(rects), m \in Modifiers :
            (ClkPressBody(r, m) /\ m.ctrl /\ FirstClicked(r, TopLeft(r)))
                => OnlySelected(rects', objects', selected_objects', r) ]_vars

\* The step is a press of Button-1 on the given part of rectangle r (r = 0
\* for the canvas).
Pressed(r, part) == grabbed = None /\ grabbed' = [ rect |-> r, part |-> part ]

\* The press of Button-1 at p had the effect the canvas gives a click at p:
\* with no tracked rectangle under the pointer the selection is empty, no
\* flag is set and dragging is on; with one under it dragging stays off and
\* no rubber band exists.
ClickEffect(p) ==
    IF ClickedIds(p) = << >>
    THEN /\ selected_objects' = << >>
         /\ \A id \in DOMAIN objects' : ~ rects'[objects'[id]].is_selected
         /\ dragging' = TRUE
    ELSE /\ dragging' = FALSE
         /\ rubber' = NoBand

\* C14: a click where no tracked rectangle is under the pointer leaves the
\* selection empty and the canvas in the rubber-band state (dragging true);
\* a click that hits a tracked rectangle never enters that state; whether
\* panning is on or off.
C14_EmptyClickClearsAndStartsBand ==
    [][ \A m \in Modifiers :
          /\ \A p \in ClickPoints :
               (Pressed(0, "canvas") /\ ClkPressCanvas(p, m)) => ClickEffect(p)
          /\ \A r \in 1 .. Len(rects) :
               /\ (Pressed(r, "body") /\ ClkPressBody(r, m))
                    => ClickEffect(TopLeft(r))
               /\ (Pressed(r, "handle") /\ ClkPressHandle(r, m))
                    => ClickEffect(rects[r].handle) ]_vars

\* The press of Button-1 at p had the effect of a click at p while panning
\* is off; while panning is on it left the selection, the flags, dragging
\* and the rubber band as they were.
ClickOutcome(p) ==
    IF panning
    THEN /\ UNCHANGED << selected_objects, dragging, rubber >>
         /\ \A r \in 1 .. Len(rects) : rects'[r].is_selected = rects[r].is_selected
    ELSE ClickEffect(p)

\* C14, amended: while panning is off, a click where no tracked rectangle is
\* under the pointer leaves the selection empty and the canvas in the
\* rubber-band state (dragging true), and a click that hits a tracked
\* rectangle does not enter that state; while panning is on, a click changes
\* neither the selection nor dragging nor the rubber band.
C14_ClickStartsBandUnlessPanning ==
    [][ \A m \in Modifiers :
          /\ \A p \in ClickPoints :
               (Pressed(0, "canvas") /\ ClkPressCanvas(p, m)) => ClickOutcome(p)
          /\ \A r \in 1 .. Len(rects) :
               /\ (Pressed(r, "body") /\ ClkPressBody(r, m))
                    => ClickOutcome(TopLeft(r))
               /\ (Pressed(r, "handle") /\ ClkPressHandle(r, m))
                    => ClickOutcome(rects[r].handle) ]_vars

\* A press on an empty place, made while panning was off, has emptied the
\* selection and started dragging.
C14_Witness ==
    /\ ~ panning
    /\ grabbed # None
    /\ grabbed.part = "canvas"
    /\ dragging
    /\ fired.deselect > 0
    /\ DOMAIN objects # {}
    /\ selected_objects = << >>

\* C15: during a rubber-band drag, after every pointer motion that updates
\* the drag rectangle, the selection is exactly the set of tracked rectangles
\* that lie completely inside the drag rectangle; rectangles that leave it
\* are deselected, rectangles that enter it are selected.
C15_BandSelectsExactlyEnclosed ==
    [][ \A p \in BandPoints :
            (BandDragCanvas(p) /\ dragging /\ rubber.start # None)
                => /\ rubber'.rect = TkBox(<< rubber.start[1], rubber.start[2], p[1], p[2] >>)
                   /\ \A id \in DOMAIN objects' :
                        /\ SeqHas(selected_objects', id)
                             <=> Enclosed(rubber'.rect, rects'[objects'[id]].coords)
                        /\ rects'[objects'[id]].is_selected
                             <=> Enclosed(rubber'.rect, rects'[objects'[id]].coords)
                   /\ SeqSet(selected_objects') \subseteq DOMAIN objects' ]_vars

\* The tracked rectangles whose selection flag the step sets.
BecomeSelected ==
    { id \in DOMAIN objects :
        /\ ~ rects[objects[id]].is_selected
        /\ id \in DOMAIN objects'
        /\ rects'[objects'[id]].is_selected }

\* The tracked rectangles that are selected before the step and are not
\* selected, or not tracked, after it.
BecomeDeselected ==
    { id \in DOMAIN objects :
        /\ rects[objects[id]].is_selected
        /\ (id \notin DOMAIN objects' \/ ~ rects'[objects'[id]].is_selected) }

\* C16: every operation calls select_callback exactly once for every
\* rectangle it takes from unselected to selected and deselect_callback
\* exactly once for every rectangle it takes from selected to unselected, and
\* calls neither when no rectangle changes state; select_all on n unselected
\* rectangles calls select_callback n times.
C16_CallbackOncePerTransition ==
    [][ NextSelect =>
          /\ fired'.select = Cardinality(BecomeSelected)
          /\ fired'.deselect = Cardinality(BecomeDeselected) ]_vars

\* The selection and the flags agree on the tracked rectangles.
SelectionConsistent ==
    /\ SeqSet(selected_objects) \subseteq DOMAIN objects
    /\ \A id \in DOMAIN objects :
         rects[objects[id]].is_selected <=> SeqHas(selected_objects, id)

\* C17: the selected ids are tracked ids, a tracked rectangle's flag is set
\* exactly if its id is selected; after select_all the selection is the set
\* of all tracked ids, after deselect_all it is empty and no flag is set.
C17_SelectionMatchesFlags ==
    /\ []SelectionConsistent
    /\ [][ /\ SelSelectAll =>
                /\ SeqSet(selected_objects') = DOMAIN objects'
                /\ \A id \in DOMAIN objects' : rects'[objects'[id]].is_selected
           /\ SelDeselectAll =>
                /\ selected_objects' = << >>
                /\ \A id \in DOMAIN objects' : ~ rects'[objects'[id]].is_selected
         ]_vars

\* C18: delete_draggable_rectangle of a tracked id removes the rectangle from
\* the id map, from the selection and from the surface together with its
\* attached items and leaves every other rectangle as it was; for an id that
\* is not tracked it changes nothing and calls no callback.
C18_DeleteRemovesOnlyThatRectangle ==
    [][ \A id \in ItemIds :
          SelDelete(id) =>
            IF id \in DOMAIN objects
            THEN LET r == objects[id]
                 IN  /\ DOMAIN objects' = DOMAIN objects \ { id }
                     /\ ~ SeqHas(selected_objects', id)
                     /\ ~ rects'[r].drawn
                     /\ texts' = texts \ SeqSet(rects[r].attached)
                     /\ \A j \in DOMAIN objects' : objects'[j] = objects[j]
                     /\ \A q \in (1 .. Len(rects)) \ { r } : rects'[q] = rects[q]
                     /\ Len(rects') = Len(rects)
                     /\ selected_objects' = SeqDel(selected_objects, id)
            ELSE /\ UNCHANGED << rects, texts, objects, selected_objects,
                                 next_item_id, history_states, history_index >>
                 /\ fired' = NoCalls ]_vars

\* A selected rectangle with an attached text has just been deleted, item
\* and text, and another rectangle is still tracked.
C18_Witness ==
    /\ \E r \in 1 .. Len(rects) : ~ rects[r].drawn
    /\ ntexts = 1
    /\ texts = {}
    /\ fired.deselect = 1
    /\ DOMAIN objects # {}

\* Rectangle q is tracked and selected.
IsSelected(q) ==
    \E id \in DOMAIN objects : objects[id] = q /\ SeqHas(selected_objects, id)

\* C19: while a rectangle's body is dragged without angle lock, each pointer
\* motion translates every selected rectangle, item and handle, by the
\* pointer position minus the last recorded pointer position and moves no
\* unselected rectangle; so the selected rectangles keep their relative
\* offsets, and the total displacement of every selected rectangle since
\* the press is the last pointer position minus the press position.
C19_BodyDragTranslatesSelection ==
    /\ [][ \A d \in DragDeltas :
             (DragDragBody(d) /\ ~ keyboard_state.shift) =>
               \A q \in 1 .. Len(rects) :
                 IF IsSelected(q)
                 THEN /\ rects'[q].coords
                           = << rects[q].coords[1] + d[1], rects[q].coords[2] + d[2],
                                rects[q].coords[3] + d[1], rects[q].coords[4] + d[2] >>
                      /\ rects'[q].handle
                           = << rects[q].handle[1] + d[1], rects[q].handle[2] + d[2] >>
                 ELSE /\ rects'[q].coords = rects[q].coords
                      /\ rects'[q].handle = rects[q].handle ]_vars
    /\ []((grabbed # None /\ grabbed.part = "body" /\ laid # NoLayout /\ ~ laid.locked)
            => \A q \in 1 .. Len(rects) :
                  IsSelected(q) =>
                    \A i \in 1 .. 4 :
                      rects[q].coords[i] - laid.before.rects[q].coords[i]
                        = rects[grabbed.rect].start[2 - (i % 2)] - laid.at[2 - (i % 2)])

\* C20: while a resize handle is dragged, each pointer motion applies the
\* pointer position minus the last recorded pointer position to the
\* bottom-right corner, and the handle, of the rectangle that owns the
\* grabbed handle and of every selected rectangle, wherever the rectangle
\* keeps a positive width and height.
C20_ResizeAppliesToOwnerAndSelected ==
    [][ PtrDragHandle =>
          LET r  == grabbed.rect
              dx == rects'[r].resize_start[1] - rects[r].resize_start[1]
              dy == rects'[r].resize_start[2] - rects[r].resize_start[2]
          IN  \A q \in 1 .. Len(rects) :
                LET c == rects[q].coords
                IN  ((q = r \/ IsSelected(q)) /\ c[3] + dx > c[1] /\ c[4] + dy > c[2])
                      => /\ rects'[q].coords = << c[1], c[2], c[3] + dx, c[4] + dy >>
                         /\ rects'[q].handle = << c[3] + dx, c[4] + dy >> ]_vars

(* ------------------- claims on resizing and layout -------------------- *)
\* The box of rec, four doubles.
BoxOf(rec) ==
    IF HasWholeCoords(rec)
    THEN << Flt(rec.coords[1]), Flt(rec.coords[2]),
            Flt(rec.coords[3]), Flt(rec.coords[4]) >>
    ELSE rec.coords[1].doubles

\* The position of the handle of rec, two doubles.
HandleAt(rec) ==
    IF Len(rec.handle) = 2
    THEN << Flt(rec.handle[1]), Flt(rec.handle[2]) >>
    ELSE rec.handle[1].doubles

\* rec has a positive width and a positive height.
HasPositiveSize(rec) ==
    FLess(BoxOf(rec)[1], BoxOf(rec)[3]) /\ FLess(BoxOf(rec)[2], BoxOf(rec)[4])

\* C21: in a resize-drag event over the selected rectangles, a rectangle
\* whose new box would have x1 <= x0 or y1 <= y0 keeps its box and its handle,
\* every other selected rectangle gets its new box in the same event, and no
\* rectangle of positive width and height ends with a width or height that
\* is not positive.
C21_InvalidResizeSkipsOnlyThatRectangle ==
    [][ \A d \in ResizeDeltas :
          ResDragHandle(d) =>
            \A q \in 1 .. Len(rects) :
              /\ HasPositiveSize(rects[q]) => HasPositiveSize(rects'[q])
              /\ (IsSelected(q) /\ ~ Raises(rects[q], d[1], d[2], keyboard_state)) =>
                   LET n == Resized(rects[q], d[1], d[2], keyboard_state)
                   IN  IF ~ FLess(n[1], n[3]) \/ ~ FLess(n[2], n[4])
                       THEN /\ rects'[q].coords = rects[q].coords
                            /\ rects'[q].handle = rects[q].handle
                       ELSE /\ BoxOf(rects'[q]) = n
                            /\ HandleAt(rects'[q]) = << n[3], n[4] >> ]_vars

\* The pair of doubles a is the delta (dx, dy) with its component of smaller
\* magnitude zeroed.
ConstrainedTo(a, dx, dy) ==
    IF Abs(dx) > Abs(dy) THEN a = << Flt(dx), Flt(0) >>
    ELSE IF Abs(dy) > Abs(dx) THEN a = << Flt(0), Flt(dy) >>
    ELSE a \in { << Flt(dx), Flt(0) >>, << Flt(0), Flt(dy) >> }

\* The distance, a pair of doubles, from the bottom-right corner of the whole
\* box c to that of the box n of four doubles.
CornerDelta(n, c) ==
    << [ n[3] EXCEPT !.num = @ - c[3] * n[3].den ],
       [ n[4] EXCEPT !.num = @ - c[4] * n[4].den ] >>

\* The two edges of the box n along axis i (1: x, 2: y) add up to the whole
\* number m.
EdgesSumTo(n, i, m) ==
    /\ n[i].num * n[i + 2].den + n[i + 2].num * n[i].den
          = m * n[i].den * n[i + 2].den
    /\ n[i].err + n[i + 2].err = 0

\* C22: in a resize-drag event that changes a selected rectangle, with Alt
\* held the bottom-right corner moves by the delta with its component of
\* smaller magnitude zeroed, Shift held or not; with Ctrl held the top-left
\* corner moves by the negated delta of the bottom-right corner, so that the
\* centre stays, under every state of Alt and Shift; without Ctrl the
\* top-left corner stays; the new box may have coordinates that are not
\* whole.
C22_ResizeModifiersCombine ==
    [][ \A d \in ResizeDeltas :
          ResDragHandle(d) =>
            \A q \in 1 .. Len(rects) :
              (IsSelected(q) /\ rects'[q].coords # rects[q].coords) =>
                LET c == rects[q].coords
                    n == BoxOf(rects'[q])
                    a == CornerDelta(n, c)
                IN  /\ keyboard_state.alt => ConstrainedTo(a, d[1], d[2])
                    /\ keyboard_state.ctrl =>
                         /\ n[1] = FAdd(c[1], FNeg(a[1]))
                         /\ n[2] = FAdd(c[2], FNeg(a[2]))
                         /\ EdgesSumTo(n, 1, c[1] + c[3])
                         /\ EdgesSumTo(n, 2, c[2] + c[4])
                    /\ ~ keyboard_state.ctrl =>
                         (n[1] = Flt(c[1]) /\ n[2] = Flt(c[2]))
                    /\ (~ keyboard_state.alt /\ ~ keyboard_state.shift) =>
                         a = << Flt(d[1]), Flt(d[2]) >>
      ]_vars

\* With Alt, Shift and Ctrl held the 40 x 20 rectangle was resized by (8, 2):
\* 8 to either side, its height kept.
C22_Witness ==
    /\ grabbed # None
    /\ grabbed.part = "handle"
    /\ keyboard_state = [ shift |-> TRUE, alt |-> TRUE, ctrl |-> TRUE ]
    /\ \E q \in 1 .. Len(rects) : rects[q].coords = << 0 - 8, 0, 48, 20 >>

\* The edge that an edge mode of align lines up.
EdgeOf(rec, mode) ==
    IF mode = "top" THEN rec.coords[2]
    ELSE IF mode = "bottom" THEN rec.coords[4]
    ELSE IF mode = "start" THEN rec.coords[1]
    ELSE rec.coords[3]

\* The top-left coordinate along the axis that a mode leaves alone: x for the
\* modes that move rectangles vertically, y for the others.
PerpendicularOf(rec, mode) ==
    IF mode \in { "top", "middle", "bottom", "vertical" }
    THEN rec.coords[1]
    ELSE rec.coords[2]

\* The last operation was a call of op that returned.
Returned(op) == laid.op = op /\ raised = "none"

\* C23: after align in mode top, bottom, start or end, every rectangle of the
\* list has the edge y0, y1, x0 or x1 of the first element, which is not
\* moved, and keeps its size and its position along the other axis.
C23_EdgeModesAlignToFirst ==
    (Returned("align") /\ laid.mode \in { "top", "bottom", "start", "end" }
                       /\ laid.list # << >>)
        => LET l   == laid.list
               old == laid.before.rects
           IN  /\ rects[l[1]] = old[l[1]]
               /\ \A i \in 1 .. Len(l) :
                     /\ EdgeOf(rects[l[i]], laid.mode) = EdgeOf(old[l[1]], laid.mode)
                     /\ get_size(rects[l[i]]) = get_size(old[l[i]])
                     /\ PerpendicularOf(rects[l[i]], laid.mode)
                            = PerpendicularOf(old[l[i]], laid.mode)

\* The green rectangle, 25 wide, after align in mode end with the black one,
\* 40 wide, whose right edge is at 40.
C23_Witness ==
    /\ Returned("align") /\ laid.mode = "end"
    /\ Len(laid.list) >= 2
    /\ laid.before.rects[laid.list[1]].coords = << 0, 0, 40, 30 >>
    /\ \E i \in 2 .. Len(laid.list) :
          /\ laid.before.rects[laid.list[i]].coords = << 5, 10, 30, 28 >>
          /\ rects[laid.list[i]].coords = << 15, 10, 40, 28 >>

\* Twice the coordinate of the centre line that a centre mode of align lines
\* up: the horizontal centre line for middle, the vertical one for center.
TwiceCentreOf(rec, mode) ==
    IF mode = "middle"
    THEN rec.coords[2] + rec.coords[4]
    ELSE rec.coords[1] + rec.coords[3]

\* C24: after align in mode middle or center, every rectangle of the list
\* has the centre line of the first element, whatever the integer sizes, and
\* keeps its size and its position along the other axis.
C24_CentreModesAlignToFirst ==
    (Returned("align") /\ laid.mode \in { "middle", "center" }
                       /\ laid.list # << >>)
        => LET l   == laid.list
               old == laid.before.rects
           IN  \A i \in 1 .. Len(l) :
                  /\ TwiceCentreOf(rects[l[i]], laid.mode)
                         = TwiceCentreOf(old[l[1]], laid.mode)
                  /\ get_size(rects[l[i]]) = get_size(old[l[i]])
                  /\ PerpendicularOf(rects[l[i]], laid.mode)
                         = PerpendicularOf(old[l[i]], laid.mode)

\* The position of a rectangle along the axis of a distribute mode, and the
\* coordinate at which it ends.
StartOf(rec, mode) == rec.coords[AxisOf(mode)]

EndOf(rec, mode) == rec.coords[AxisOf(mode) + 2]

\* The rectangles of the last distribute call in the order of their position
\* along the axis before the call.
InOrder == Sorted(laid.before.rects, laid.list, laid.mode, laid.origin)

\* (last.position - first.position) - sum of sizes, before the call.
Slack ==
    LET old == laid.before.rects
        n   == Len(InOrder)
    IN  (StartOf(old[InOrder[n]], laid.mode) - StartOf(old[InOrder[1]], laid.mode))
            - SumOf(InOrder, [ q \in 1 .. Len(old) |->
                                 get_size(old[q])[AxisOf(laid.mode)] ])

\* C25: after distribute on three or more rectangles, taken in order of
\* position along the axis, the first has not moved, every rectangle keeps
\* its size and its position along the other axis, and the gap between each
\* consecutive pair is exactly slack / (n - 1).
C25_DistributeSharesSlackExactly ==
    (Returned("distribute") /\ Len(laid.list) >= 3)
        => LET old == laid.before.rects
               n   == Len(InOrder)
           IN  /\ rects[InOrder[1]] = old[InOrder[1]]
               /\ \A i \in 1 .. n :
                     /\ get_size(rects[InOrder[i]]) = get_size(old[InOrder[i]])
                     /\ PerpendicularOf(rects[InOrder[i]], laid.mode)
                            = PerpendicularOf(old[InOrder[i]], laid.mode)
               /\ \A i \in 1 .. n - 1 :
                     (StartOf(rects[InOrder[i + 1]], laid.mode)
                          - EndOf(rects[InOrder[i]], laid.mode)) * (n - 1) = Slack

\* C26: distribute in mode horizontal on three or more rectangles of equal
\* width and distinct x0 yields x0 values that increase strictly in sorted
\* order, with equal differences between consecutive ones.
C26_EqualWidthsSpreadEvenly ==
    LET old == laid.before.rects
        n   == Len(InOrder)
    IN  (/\ Returned("distribute") /\ laid.mode = "horizontal" /\ n >= 3
         /\ \A i, j \in 1 .. n :
               /\ get_size(old[InOrder[i]])[1] = get_size(old[InOrder[j]])[1]
               /\ i # j => old[InOrder[i]].coords[1] # old[InOrder[j]].coords[1])
            => /\ \A i \in 1 .. n - 1 :
                     rects[InOrder[i]].coords[1] < rects[InOrder[i + 1]].coords[1]
               /\ \A i \in 1 .. n - 2 :
                     rects[InOrder[i + 1]].coords[1] - rects[InOrder[i]].coords[1]
                         = rects[InOrder[i + 2]].coords[1] - rects[InOrder[i + 1]].coords[1]

\* C27: align and distribute change only the positions of rectangles: the
\* history and its cursor, the id map, the selection and next_item_id are as
\* before the call, no rectangle is created or deleted, and every rectangle
\* differs from before in nothing but its box and handle position.
C27_LayoutChangesOnlyPositions ==
    laid.op \in { "align", "distribute" }
        => /\ history_states = laid.before.history_states
           /\ history_index = laid.before.history_index
           /\ objects = laid.before.objects
           /\ selected_objects = laid.before.selected_objects
           /\ next_item_id = laid.before.next_item_id
           /\ Len(rects) = Len(laid.before.rects)
           /\ \A r \in 1 .. Len(rects) :
                 /\ rects[r] = [ laid.before.rects[r] EXCEPT
                                   !.coords = rects[r].coords,
                                   !.handle = rects[r].handle ]
                 /\ get_size(rects[r]) = get_size(laid.before.rects[r])

\* Three rectangles, two of them tracked and selected, of which distribute
\* has moved some.
C27_Witness ==
    /\ Returned("distribute")
    /\ Len(rects) = 3
    /\ Len(selected_objects) = 2
    /\ rects # laid.before.rects

(* ------------------ claims on the rectangle operations ---------------- *)
\* C28: every rectangle has x1 > x0 and y1 > y0 in every reachable state,
\* after any method that changes it, and so has every rectangle that an
\* operator returns.
C28_PositiveSizeAlways ==
    \A r \in 1 .. Len(rects) :
        rects[r].drawn =>
            /\ float_lt(Floats(rects[r].coords)[1], Floats(rects[r].coords)[3])
            /\ float_lt(Floats(rects[r].coords)[2], Floats(rects[r].coords)[4])

\* C29: in every reachable state the resize handle of each rectangle is at
\* the bottom-right corner (x1, y1) of the rectangle.
C29_HandleAtBottomRight ==
    \A r \in 1 .. Len(rects) :
        rects[r].drawn =>
            Floats(rects[r].handle)
                = << Floats(rects[r].coords)[3], Floats(rects[r].coords)[4] >>

\* C30: rect[i] = v with i in [-4, 4) and a result with x1 <= x0 or y1 <= y0
\* raises ValueError and leaves coordinates and handle as they were; an index
\* outside [-4, 4) raises IndexError and changes nothing; a valid assignment
\* changes coordinate i and no other.
C30_SetItemChecksBeforeWriting ==
    laid.op = "setitem"
        => LET r   == laid.rect
               i   == laid.index
               old == laid.before.rects
           IN  /\ Len(rects) = Len(old)
               /\ \A q \in 1 .. Len(rects) : q # r => rects[q] = old[q]
               /\ IF i \notin -4 .. 3
                  THEN raised = "IndexError" /\ rects[r] = old[r]
                  ELSE LET k == IF i < 0 THEN i + 5 ELSE i + 1
                           n == [ old[r].coords EXCEPT ![k] = laid.value ]
                       IN  IF n[3] <= n[1] \/ n[4] <= n[2]
                           THEN raised = "ValueError" /\ rects[r] = old[r]
                           ELSE /\ raised = "none"
                                /\ rects[r].coords[k] = laid.value
                                /\ \A j \in 1 .. 4 :
                                      j # k => rects[r].coords[j] = old[r].coords[j]

\* rect[-2] = 0 on the rectangle (0, 0, 40, 24) has been refused: x1 would
\* equal x0.
C30_Witness ==
    /\ laid.op = "setitem" /\ laid.index = -2 /\ laid.value = 0
    /\ laid.before.rects[laid.rect].coords = << 0, 0, 40, 24 >>
    /\ raised = "ValueError"

\* C31: rect * k and rect *= k raise ValueError for k < 0 and succeed for
\* every k >= 0, 0 included; rect / k, rect /= k and rect // k raise
\* ZeroDivisionError for k = 0 and ValueError for k < 0; after a failure the
\* operand is as before and no rectangle has been created.
C31_ScalingRefusesBadFactors ==
    /\ laid.op \in { "mul", "imul" }
          => IF laid.num < 0
             THEN raised = "ValueError" /\ rects = laid.before.rects
             ELSE raised = "none"
    /\ laid.op \in { "truediv", "itruediv", "floordiv" }
          => IF laid.num = 0
             THEN raised = "ZeroDivisionError" /\ rects = laid.before.rects
             ELSE IF laid.num < 0
             THEN raised = "ValueError" /\ rects = laid.before.rects
             ELSE raised = "none"

\* rect * 0 has returned a rectangle.
C31_Witness ==
    /\ laid.op = "mul" /\ laid.num = 0
    /\ raised = "none"
    /\ Len(rects) = Len(laid.before.rects) + 1

\* (max x0, max y0, min x1, min y1) of two boxes.
Overlap(a, b) ==
    << IF a[1] >= b[1] THEN a[1] ELSE b[1], IF a[2] >= b[2] THEN a[2] ELSE b[2],
       IF a[3] <= b[3] THEN a[3] ELSE b[3], IF a[4] <= b[4] THEN a[4] ELSE b[4] >>

\* C32: a & b is None, and never an empty box, exactly when max x0 >= min x1
\* or max y0 >= min y1, so that rectangles that only touch do not intersect;
\* otherwise it is the box (max x0, max y0, min x1, min y1), of positive area
\* and with the coordinates of b & a; (0, 0, 100, 100) & (50, 50, 150, 150)
\* is (50, 50, 100, 100), of area 2500.
C32_IntersectionIsOverlapOrNone ==
    laid.op = "and"
        => LET old == laid.before.rects
               a   == old[laid.rect].coords
               b   == old[laid.other].coords
               m   == Overlap(a, b)
               n   == Len(old)
           IN  /\ raised = "none"
               /\ SubSeq(rects, 1, n) = old
               /\ IF m[1] >= m[3] \/ m[2] >= m[4]
                  THEN Len(rects) = n
                  ELSE /\ Len(rects) = n + 1
                       /\ rects[n + 1].coords = m
                       /\ Area(rects[n + 1]) > 0
                       /\ rects[n + 1].coords
                              = And(old[laid.other], old[laid.rect]).rect.coords
               /\ (a = << 0, 0, 100, 100 >> /\ b = << 50, 50, 150, 150 >>)
                     => /\ Len(rects) = n + 1
                        /\ rects[n + 1].coords = << 50, 50, 100, 100 >>
                        /\ Area(rects[n + 1]) = 2500

\* The intersection of (0, 0, 100, 100) and (50, 50, 150, 150) exists.
C32_Witness ==
    /\ laid.op = "and"
    /\ laid.before.rects[laid.rect].coords = << 0, 0, 100, 100 >>
    /\ laid.before.rects[laid.other].coords = << 50, 50, 150, 150 >>
    /\ Len(rects) = 3

(* ----------------------- claims on ids and history -------------------- *)
\* C33: next_item_id never decreases, whatever is created, copied, deleted,
\* undone or redone, so that an id once given to a rectangle is never given
\* to another one later.
C33_NextItemIdNeverDecreases ==
    [][ next_item_id' >= next_item_id ]_vars

\* C34: a snapshot never changes while it is in the history: a step leaves
\* the history as it is, or puts one new snapshot behind the snapshots up to
\* the cursor, all unchanged, of which the oldest is dropped only when the
\* cap is exceeded.
C34_SnapshotsAreImmutable ==
    [][ \/ history_states' = history_states
        \/ \E d \in { 0, 1 } :
              /\ d = 1 => history_index + 2 > max_history
              /\ Len(history_states') = history_index + 2 - d
              /\ SubSeq(history_states', 1, Len(history_states') - 1)
                     = SubSeq(history_states, 1 + d, history_index + 1) ]_vars

\* A snapshot taken with another id counter lies behind two older ones, an
\* undo has moved the cursor below it, and the canvas was zoomed before.
C34_Witness ==
    /\ Len(history_states) >= 3
    /\ history_states[Len(history_states)].next_item_id
           # history_states[1].next_item_id
    /\ history_index < Len(history_states) - 1
    /\ zoom_level # Double(1)

(* ----------------------- claims on the Delete key --------------------- *)
\* The ids a sequence of keys holds.
KeysOf(seq) == { seq[i] : i \in 1 .. Len(seq) }

\* C35: on the Delete key with no delete_callback configured, every selected
\* rectangle is deleted, every unselected one is untouched, the selection is
\* empty and exactly one snapshot was pushed (nothing at all changes when
\* nothing was selected); with a delete_callback configured, the callback is
\* invoked, no rectangle is removed and no snapshot is pushed.
C35_DeleteKeyDeletesSelectionInOneSnapshot ==
    laid.op = "delete_key" =>
        LET b    == laid.before
            gone == KeysOf(b.selected)
        IN  IF user_delete_callback # None
            THEN /\ fired.delete = 1
                 /\ rects = b.rects /\ objects = b.objects
                 /\ selected_objects = b.selected
                 /\ history_states = b.history_states
                 /\ history_index = b.history_index
            ELSE IF b.selected = << >>
            THEN /\ rects = b.rects /\ objects = b.objects
                 /\ selected_objects = << >>
                 /\ history_states = b.history_states
                 /\ history_index = b.history_index
            ELSE /\ DOMAIN objects = (DOMAIN b.objects) \ gone
                 /\ \A id \in gone : ~ rects[b.objects[id]].drawn
                 /\ \A id \in DOMAIN objects :
                        /\ objects[id] = b.objects[id]
                        /\ rects[objects[id]] = b.rects[objects[id]]
                 /\ selected_objects = << >>
                 /\ Len(history_states) = b.history_index + 2
                 /\ history_index = b.history_index + 1
                 /\ SubSeq(history_states, 1, b.history_index + 1)
                        = SubSeq(b.history_states, 1, b.history_index + 1)

(* --------------------------- claims on zoom --------------------------- *)
\* The call on record was a zoom call whose new zoom level, the product or
\* the quotient of the zoom level before it and the factor, is out of bounds.
OutOfBounds ==
    \/ /\ laid.op = "zoom_in"
       /\ \E factor \in { Literal(laid.factor[1], laid.factor[2]) } :
             \E new_zoom \in { float_mul(laid.before.zoom_level, factor) } :
                 float_lt(max_zoom, new_zoom)
    \/ /\ laid.op = "zoom_out"
       /\ \E factor \in { Literal(laid.factor[1], laid.factor[2]) } :
             \E new_zoom \in { float_truediv(laid.before.zoom_level, factor) } :
                 float_lt(new_zoom, min_zoom)

\* C36: under zoom_in and zoom_out with factors of at least 1, the zoom level
\* stays within min_zoom and max_zoom; a call whose result would leave the
\* bounds changes neither the zoom level nor any coordinate; undo and redo
\* leave the zoom level as it is.
C36_ZoomStaysWithinBounds ==
    /\ float_le(min_zoom, zoom_level) /\ float_le(zoom_level, max_zoom)
    /\ OutOfBounds =>
          /\ zoom_level = laid.before.zoom_level
          /\ rects = laid.before.rects
    /\ laid.op \in { "undo", "redo" } => zoom_level = laid.before.zoom_level

\* zoom_in(3) and zoom_out(10) have brought a rectangle to the zoom level 0.3,
\* where zoom_out(3) was refused: the quotient 0.3 / 3 is the binary64 value
\* below 0.1.
C36_Witness ==
    /\ laid.op = "zoom_out"
    /\ laid.factor = << 3, 1 >>
    /\ OutOfBounds
    /\ zoom_level = Literal(3, 10)
    /\ float_truediv(zoom_level, Double(3)) # Literal(1, 10)
    /\ Len(rects) = 1 /\ rects[1].drawn

(* ------------------------ claims on the cursor ------------------------ *)
\* C37: the history is never empty and the cursor is an index of it
\* (0 <= history_index <= len(history_states) - 1); after every save_state()
\* that returns, the cursor is on the snapshot pushed last, the entry at
\* len(history_states) - 1, also when the oldest entry was evicted or the
\* entries beyond the cursor were dropped.
C37_CursorStaysInsideHistory ==
    /\ [](/\ history_states # << >>
          /\ history_index \in 0 .. Len(history_states) - 1)
    /\ [][ (save_state /\ raised' = "none") =>
               history_index' = Len(history_states') - 1 ]_vars

C37_Witness ==
    /\ evicted >= 2
    /\ undone
    /\ Len(history_states) = max_history
    /\ history_index = max_history - 1

\* C38: undo() immediately followed by redo() is the identity on the canvas:
\* from a cursor above 0, the id map with each rectangle's coordinates and
\* outline, the selection set and next_item_id after the pair are what they
\* were before it, whatever changed since the last snapshot.
C38_UndoThenRedoIsIdentity ==
    [][ (undo /\ history_index > 0) =>
            LET after == RedoResult'
            IN  /\ DOMAIN after.world.objects = DOMAIN objects
                /\ \A id \in (DOMAIN objects) \cap (DOMAIN after.world.objects) :
                       LET new == after.world.rects[after.world.objects[id]]
                           old == rects[objects[id]]
                       IN  /\ new.coords = old.coords
                           /\ new.original_outline = old.original_outline
                /\ KeysOf(after.world.selected) = KeysOf(selected_objects)
                /\ after.next_item_id = next_item_id ]_vars

(* ------------------------- claims on the lookup ----------------------- *)
\* C39: get_item_id is the inverse of get_draggable_rectangle: for every
\* tracked id i, get_item_id(get_draggable_rectangle(i)) = i, also when two
\* tracked rectangles have the same coordinates.
C39_GetItemIdInvertsLookup ==
    \A i \in DOMAIN objects :
        get_item_id(rects, objects, get_draggable_rectangle(objects, i)) = i

(* --------------------------- claims on panning ------------------------ *)
\* Button 1 goes down, moves while it is down, goes up.
IsPress == grabbed = None /\ grabbed' # None /\ grabbed'.part # "middle"

IsMotion ==
    /\ grabbed # None /\ grabbed.part # "middle"
    /\ grabbed' = grabbed /\ panning' = panning

IsRelease == grabbed # None /\ grabbed.part # "middle" /\ grabbed' = None

\* C40: while panning is on, a left click and a left-button motion change
\* neither the selection nor the rubber-band state (dragging, start point,
\* selection rectangle); after on_drag_release the rubber-band state is idle
\* and the selection is kept; a motion event changes the selection only
\* after a click on empty space, that is with no tracked rectangle under the
\* pointer.
C40_PanningAndReleaseKeepSelection ==
    [][ /\ (panning /\ (IsPress \/ IsMotion)) =>
               UNCHANGED << selected_objects, dragging, rubber >>
        /\ IsRelease =>
               /\ dragging' = FALSE
               /\ rubber' = NoBand
               /\ selected_objects' = selected_objects
        /\ (IsMotion /\ selected_objects' # selected_objects) =>
               (laid.op = "press" /\ laid.empty) ]_vars

\* Button 1 went down on an empty place while panning was on: a rectangle is
\* still selected and no rubber band has started.
C40_Witness ==
    /\ panning
    /\ grabbed # None
    /\ grabbed.part = "canvas"
    /\ ~ dragging
    /\ rubber = NoBand
    /\ selected_objects # << >>
====
